---- MODULE Spec2Model ----
(***************************************************************************)
(* A model of the response/request translation core of the proxy:          *)
(*   app/adapt_response.py  stream_from_anthropic_compat                    *)
(*   app/tool_repair.py     repair_tool_use_blocks, _generate_tool_use_id   *)
(*   app/adapt_request.py   apply_thinking_policy                           *)
(*                                                                         *)
(* Python bytes and str values are sequences of one-element tokens (a       *)
(* one-character TLA+ string per ASCII byte/character; "xC3" and "xA9" are  *)
(* the two bytes of the UTF-8 encoding of the character "e'", and "uFFFD"   *)
(* is the replacement character).  JSON values are tagged pairs, and a dict *)
(* is the sequence of its (key, value) pairs in insertion order, as a       *)
(* Python dict keeps them.                                                  *)
(***************************************************************************)
EXTENDS Integers, Sequences, FiniteSets, Bags, TLC

----------------------------------------------------------------------------
(* str / bytes primitives *)

\* the characters str.strip() removes (those of them the model's alphabet has)
Whitespace == {" ", "\t", "\r", "\n"}

RECURSIVE LStripFrom(_, _)
LStripFrom(s, i) ==
    IF i <= Len(s) /\ s[i] \in Whitespace THEN LStripFrom(s, i + 1) ELSE i

RECURSIVE RStripTo(_, _)
RStripTo(s, j) ==
    IF j >= 1 /\ s[j] \in Whitespace THEN RStripTo(s, j - 1) ELSE j

\* str.strip() / bytes.strip()
Strip(s) == SubSeq(s, LStripFrom(s, 1), RStripTo(s, Len(s)))

\* str.startswith(p)
StartsWith(s, p) == Len(s) >= Len(p) /\ SubSeq(s, 1, Len(p)) = p

\* s[n:]
DropFirst(s, n) == SubSeq(s, n + 1, Len(s))

UpperCase == <<"A","B","C","D","E","F","G","H","I","J","K","L","M",
               "N","O","P","Q","R","S","T","U","V","W","X","Y","Z">>
LowerCase == <<"a","b","c","d","e","f","g","h","i","j","k","l","m",
               "n","o","p","q","r","s","t","u","v","w","x","y","z">>

LowerChar(c) ==
    IF \E i \in 1..26 : UpperCase[i] = c
    THEN LowerCase[CHOOSE i \in 1..26 : UpperCase[i] = c]
    ELSE c

\* str.lower()
Lower(s) == [i \in 1..Len(s) |-> LowerChar(s[i])]

\* bytes.split(b"\n"): the segments between newlines, one more than newlines
Split(b) ==
    LET nl     == { i \in 1..Len(b) : b[i] = "\n" }
        n      == Cardinality(nl)
        at(k)  == CHOOSE i \in nl : Cardinality({ j \in nl : j < i }) = k - 1
    IN  [k \in 1..(n + 1) |->
            SubSeq(b, IF k = 1 THEN 1 ELSE at(k - 1) + 1,
                      IF k = n + 1 THEN Len(b) ELSE at(k) - 1)]

\* bytes.decode("utf-8", errors="replace"): the two-byte sequence xC3 xA9 is
\* one character, a lead byte without its continuation byte and a stray
\* continuation byte are each replaced by U+FFFD, ASCII bytes are themselves
Decode(b) ==
    LET ch(i) ==
          IF b[i] = "xC3"
          THEN IF i < Len(b) /\ b[i + 1] = "xA9" THEN "e'" ELSE "uFFFD"
          ELSE IF b[i] = "xA9"
               THEN IF i > 1 /\ b[i - 1] = "xC3" THEN "" ELSE "uFFFD"
               ELSE b[i]
    IN  SelectSeq([i \in 1..Len(b) |-> ch(i)], LAMBDA c : c # "")

\* str.encode("utf-8"), the inverse of Decode on the characters it yields
Encode(s) ==
    SelectSeq([p \in 1..(2 * Len(s)) |->
                  IF p % 2 = 1
                  THEN IF s[(p + 1) \div 2] = "e'" THEN "xC3" ELSE s[(p + 1) \div 2]
                  ELSE IF s[p \div 2] = "e'" THEN "xA9" ELSE ""],
              LAMBDA c : c # "")

DigitChars == <<"0","1","2","3","4","5","6","7","8","9">>

IsDigit(c) == \E i \in 1..10 : DigitChars[i] = c
DigitVal(c) == (CHOOSE i \in 1..10 : DigitChars[i] = c) - 1

\* str(n) for a non-negative int
RECURSIVE IntToStr(_)
IntToStr(n) ==
    IF n < 10 THEN <<DigitChars[n + 1]>>
    ELSE Append(IntToStr(n \div 10), DigitChars[(n % 10) + 1])

\* code-point order of the characters object keys are made of (sort_keys)
CharOrder == <<"\"", "0","1","2","3","4","5","6","7","8","9">> \o UpperCase
             \o <<"\\", "_">> \o LowerCase

Ord(c) == CHOOSE i \in 1..Len(CharOrder) : CharOrder[i] = c

RECURSIVE StrLessFrom(_, _, _)
StrLessFrom(a, b, i) ==
    IF i > Len(b) THEN FALSE
    ELSE IF i > Len(a) THEN TRUE
    ELSE IF a[i] = b[i] THEN StrLessFrom(a, b, i + 1)
    ELSE Ord(a[i]) < Ord(b[i])

\* a < b on str
StrLess(a, b) == StrLessFrom(a, b, 1)

----------------------------------------------------------------------------
(* JSON values *)

None      == <<"null", 0>>
JTrue     == <<"bool", 1>>
JFalse    == <<"bool", 0>>
JNum(n)   == <<"num", n>>
JStr(s)   == <<"str", s>>
JList(xs) == <<"list", xs>>
JDict(ps) == <<"dict", ps>>

IsStr(v)  == v[1] = "str"
IsDict(v) == v[1] = "dict"
IsList(v) == v[1] = "list"

\* Python truthiness: bool(v)
Truthy(v) ==
    CASE v[1] = "null" -> FALSE
      [] v[1] = "bool" -> v[2] = 1
      [] v[1] = "num"  -> v[2] # 0
      [] OTHER         -> v[2] # <<>>

\* d.get(k): None when the key is absent
DictHas(d, k) == \E i \in 1..Len(d[2]) : d[2][i][1] = k
DictGet(d, k) ==
    IF DictHas(d, k)
    THEN d[2][CHOOSE i \in 1..Len(d[2]) : d[2][i][1] = k][2]
    ELSE None

\* d[k] = v: in place when the key exists, else appended
DictSet(d, k, v) ==
    IF DictHas(d, k)
    THEN JDict([i \in 1..Len(d[2]) |->
                   IF d[2][i][1] = k THEN <<k, v>> ELSE d[2][i]])
    ELSE JDict(Append(d[2], <<k, v>>))

\* str(v) of a str, an int, None or a bool (the names the model draws)
PyStr(v) ==
    CASE v[1] = "str"  -> v[2]
      [] v[1] = "num"  -> IntToStr(v[2])
      [] v[1] = "null" -> <<"N","o","n","e">>
      [] v[1] = "bool" -> IF v[2] = 1 THEN <<"T","r","u","e">>
                          ELSE <<"F","a","l","s","e">>
      [] OTHER         -> <<"?">>

----------------------------------------------------------------------------
(* json.loads: objects, arrays, strings (escapes \" and \\), non-negative    *)
(* integers, null, true, false; whitespace between tokens. The outcome is   *)
(* a value, json.JSONDecodeError, or RecursionError when the containers of  *)
(* the text nest deeper than the interpreter's stack allows                 *)

\* the containers json.loads lets nest before it raises RecursionError
\* (CPython: sys.getrecursionlimit() less the frames in use, near 1000)
RecursionLimit == 3

JsonWS == {" ", "\t", "\n", "\r"}

ParseFail == [ok |-> FALSE, val |-> None, next |-> 0, raised |-> "JSONDecodeError"]
ParseDeep == [ok |-> FALSE, val |-> None, next |-> 0, raised |-> "RecursionError"]
ParseOk(v, n) == [ok |-> TRUE, val |-> v, next |-> n, raised |-> ""]

RECURSIVE SkipWS(_, _)
SkipWS(s, i) == IF i <= Len(s) /\ s[i] \in JsonWS THEN SkipWS(s, i + 1) ELSE i

\* the body of a string literal from position i (after the opening quote)
RECURSIVE ScanString(_, _, _)
ScanString(s, i, acc) ==
    IF i > Len(s) THEN ParseFail
    ELSE IF s[i] = "\"" THEN ParseOk(JStr(acc), i + 1)
    ELSE IF s[i] = "\\"
         THEN IF i < Len(s) /\ s[i + 1] \in {"\"", "\\"}
              THEN ScanString(s, i + 2, Append(acc, s[i + 1]))
              ELSE ParseFail
    ELSE IF s[i] \in {"\t", "\n", "\r"} THEN ParseFail
    ELSE ScanString(s, i + 1, Append(acc, s[i]))

RECURSIVE ScanDigits(_, _, _)
ScanDigits(s, i, n) ==
    IF i <= Len(s) /\ IsDigit(s[i])
    THEN ScanDigits(s, i + 1, 10 * n + DigitVal(s[i]))
    ELSE ParseOk(JNum(n), i)

Literal(s, i, word, v) ==
    IF i + Len(word) - 1 <= Len(s) /\ SubSeq(s, i, i + Len(word) - 1) = word
    THEN ParseOk(v, i + Len(word)) ELSE ParseFail

RECURSIVE ParseValue(_, _, _)
RECURSIVE ParseMembers(_, _, _, _)
RECURSIVE AfterKey(_, _, _, _)
RECURSIVE AfterColon(_, _, _, _, _)
RECURSIVE AfterMember(_, _, _, _, _)
RECURSIVE MemberEnd(_, _, _, _)
RECURSIVE ParseItems(_, _, _, _)
RECURSIVE AfterItem(_, _, _, _)
RECURSIVE ItemEnd(_, _, _, _)

\* the value that starts at position i (no leading whitespace), inside
\* depth containers
ParseValue(s, i, depth) ==
    IF i > Len(s) THEN ParseFail
    ELSE IF s[i] = "\"" THEN ScanString(s, i + 1, <<>>)
    ELSE IF s[i] \in {"{", "["} /\ depth >= RecursionLimit THEN ParseDeep
    ELSE IF s[i] = "{" THEN ParseMembers(s, SkipWS(s, i + 1), JDict(<<>>), depth + 1)
    ELSE IF s[i] = "[" THEN ParseItems(s, SkipWS(s, i + 1), <<>>, depth + 1)
    ELSE IF s[i] = "0" THEN ParseOk(JNum(0), i + 1)
    ELSE IF IsDigit(s[i]) THEN ScanDigits(s, i, 0)
    ELSE IF s[i] = "n" THEN Literal(s, i, <<"n","u","l","l">>, None)
    ELSE IF s[i] = "t" THEN Literal(s, i, <<"t","r","u","e">>, JTrue)
    ELSE IF s[i] = "f" THEN Literal(s, i, <<"f","a","l","s","e">>, JFalse)
    ELSE ParseFail

\* an object from position i, after its opening brace (d is empty) or after
\* a comma: the closing brace of an empty object, or a "key": value pair
ParseMembers(s, i, d, depth) ==
    IF i > Len(s) THEN ParseFail
    ELSE IF s[i] = "}" /\ d[2] = <<>> THEN ParseOk(d, i + 1)
    ELSE IF s[i] # "\"" THEN ParseFail
    ELSE AfterKey(s, d, ScanString(s, i + 1, <<>>), depth)

AfterKey(s, d, k, depth) ==
    IF ~k.ok THEN k ELSE AfterColon(s, d, k.val[2], SkipWS(s, k.next), depth)

AfterColon(s, d, key, c, depth) ==
    IF c > Len(s) \/ s[c] # ":" THEN ParseFail
    ELSE AfterMember(s, d, key, ParseValue(s, SkipWS(s, c + 1), depth), depth)

AfterMember(s, d, key, v, depth) ==
    IF ~v.ok THEN v
    ELSE MemberEnd(s, DictSet(d, key, v.val), SkipWS(s, v.next), depth)

MemberEnd(s, d, e, depth) ==
    IF e > Len(s) THEN ParseFail
    ELSE IF s[e] = "}" THEN ParseOk(d, e + 1)
    ELSE IF s[e] = "," THEN ParseMembers(s, SkipWS(s, e + 1), d, depth)
    ELSE ParseFail

\* an array from position i, after its opening bracket (xs is empty) or
\* after a comma
ParseItems(s, i, xs, depth) ==
    IF i <= Len(s) /\ s[i] = "]" /\ xs = <<>>
    THEN ParseOk(JList(<<>>), i + 1)
    ELSE AfterItem(s, xs, ParseValue(s, i, depth), depth)

AfterItem(s, xs, v, depth) ==
    IF ~v.ok THEN v
    ELSE ItemEnd(s, Append(xs, v.val), SkipWS(s, v.next), depth)

ItemEnd(s, xs, e, depth) ==
    IF e > Len(s) THEN ParseFail
    ELSE IF s[e] = "]" THEN ParseOk(JList(xs), e + 1)
    ELSE IF s[e] = "," THEN ParseItems(s, SkipWS(s, e + 1), xs, depth)
    ELSE ParseFail

\* the text must hold one value and nothing after it
WholeText(s, v) ==
    IF ~v.ok THEN v
    ELSE IF SkipWS(s, v.next) = Len(s) + 1 THEN v ELSE ParseFail

\* json.loads(s): ok, or the exception raised
Loads(s) == WholeText(s, ParseValue(s, SkipWS(s, 1), 0))

----------------------------------------------------------------------------
(* json.dumps(v, separators=(",", ":"), ensure_ascii=False [, sort_keys]) *)

RECURSIVE EscapeFrom(_, _, _)
EscapeFrom(s, i, acc) ==
    IF i > Len(s) THEN acc
    ELSE IF s[i] \in {"\"", "\\"}
         THEN EscapeFrom(s, i + 1, acc \o <<"\\", s[i]>>)
         ELSE EscapeFrom(s, i + 1, Append(acc, s[i]))

\* ensure_ascii=True writes a non-ASCII character as a \uXXXX escape
AsciiEscape(c) ==
    IF c = "e'" THEN <<"\\","u","0","0","e","9">>
    ELSE IF c = "uFFFD" THEN <<"\\","u","f","f","f","d">>
    ELSE <<c>>

RECURSIVE AsciiFrom(_, _, _)
AsciiFrom(s, i, acc) ==
    IF i > Len(s) THEN acc ELSE AsciiFrom(s, i + 1, acc \o AsciiEscape(s[i]))

Quote(s, ensure_ascii) ==
    LET e == EscapeFrom(s, 1, <<>>) IN
    <<"\"">> \o (IF ensure_ascii THEN AsciiFrom(e, 1, <<>>) ELSE e) \o <<"\"">>

\* list.sort() of the (key, value) pairs by key: insertion sort
RECURSIVE InsertPair(_, _)
InsertPair(sorted, p) ==
    IF sorted = <<>> THEN <<p>>
    ELSE IF StrLess(p[1], Head(sorted)[1]) THEN <<p>> \o sorted
    ELSE <<Head(sorted)>> \o InsertPair(Tail(sorted), p)

RECURSIVE SortPairs(_)
SortPairs(ps) ==
    IF ps = <<>> THEN <<>>
    ELSE InsertPair(SortPairs(SubSeq(ps, 1, Len(ps) - 1)), ps[Len(ps)])

RECURSIVE DumpsWith(_, _, _)
RECURSIVE DumpsItems(_, _, _, _)
RECURSIVE DumpsPairs(_, _, _, _)

DumpsWith(v, sort_keys, ensure_ascii) ==
    CASE v[1] = "null" -> <<"n","u","l","l">>
      [] v[1] = "bool" -> IF v[2] = 1 THEN <<"t","r","u","e">>
                          ELSE <<"f","a","l","s","e">>
      [] v[1] = "num"  -> IntToStr(v[2])
      [] v[1] = "str"  -> Quote(v[2], ensure_ascii)
      [] v[1] = "list" -> <<"[">> \o DumpsItems(v[2], 1, sort_keys, ensure_ascii) \o <<"]">>
      [] v[1] = "dict" ->
            <<"{">> \o DumpsPairs(IF sort_keys THEN SortPairs(v[2]) ELSE v[2],
                                  1, sort_keys, ensure_ascii) \o <<"}">>

DumpsItems(xs, i, sort_keys, ensure_ascii) ==
    IF i > Len(xs) THEN <<>>
    ELSE (IF i > 1 THEN <<",">> ELSE <<>>) \o DumpsWith(xs[i], sort_keys, ensure_ascii)
         \o DumpsItems(xs, i + 1, sort_keys, ensure_ascii)

DumpsPairs(ps, i, sort_keys, ensure_ascii) ==
    IF i > Len(ps) THEN <<>>
    ELSE (IF i > 1 THEN <<",">> ELSE <<>>) \o Quote(ps[i][1], ensure_ascii) \o <<":">>
         \o DumpsWith(ps[i][2], sort_keys, ensure_ascii)
         \o DumpsPairs(ps, i + 1, sort_keys, ensure_ascii)

\* json.dumps(v, separators=(",", ":"), ensure_ascii=False)
Dumps(v) == DumpsWith(v, FALSE, FALSE)

\* json.dumps(v, sort_keys=True, separators=(",", ":"))
DumpsSorted(v) == DumpsWith(v, TRUE, TRUE)

----------------------------------------------------------------------------
(* string literals of the source *)

S_type == <<"t","y","p","e">>
S_text == <<"t","e","x","t">>
S_tool_use == <<"t","o","o","l","_","u","s","e">>
S_name == <<"n","a","m","e">>
S_input == <<"i","n","p","u","t">>
S_id == <<"i","d">>
S_content_block_start == <<"c","o","n","t","e","n","t","_","b","l","o","c","k","_","s","t","a","r","t">>
S_content_block == <<"c","o","n","t","e","n","t","_","b","l","o","c","k">>
S_thinking == <<"t","h","i","n","k","i","n","g">>
S_redacted_thinking == <<"r","e","d","a","c","t","e","d","_","t","h","i","n","k","i","n","g">>
S_messages == <<"m","e","s","s","a","g","e","s">>
S_content == <<"c","o","n","t","e","n","t">>
S_role == <<"r","o","l","e">>
S_toolu == <<"t","o","o","l","u","_">>
S_unknown == <<"u","n","k","n","o","w","n">>
S_data_prefix == <<"d","a","t","a",":"," ">>
S_event_prefix == <<"e","v","e","n","t",":">>
S_id_prefix == <<"i","d",":">>
S_DONE == <<"[","D","O","N","E","]">>
S_tool_open == <<"[","T","o","o","l"," ","'">>
S_tool_close == <<"'"," ","n","o","t"," ","a","v","a","i","l","a","b","l","e","]">>

----------------------------------------------------------------------------
(* app/tool_repair.py *)

\* hashlib.sha256(src.encode()).hexdigest()[:16]: the digest is a term over
\* its source (distinct sources have distinct digests; a collision of the
\* truncated digest is outside the model)
Sha256Hex16(src) == <<"sha256", "(">> \o src \o <<")">>

\* _generate_tool_use_id(name, input_params, position)
\* f"{name}:{input_str}:{position}"
hash_source(name, input_str, position) ==
    name \o <<":">> \o input_str \o <<":">> \o IntToStr(position)

\* a variant whose hash source leaves the position out
generate_tool_use_id_without_position(name, input_params, position) ==
    S_toolu \o Sha256Hex16(name \o <<":">> \o DumpsSorted(input_params))

generate_tool_use_id(name, input_params, position) ==
    S_toolu \o Sha256Hex16(hash_source(name, DumpsSorted(input_params), position))

\* str(d.get("name") or "")
NameStr(d) ==
    LET n == DictGet(d, S_name) IN IF Truthy(n) THEN PyStr(n) ELSE <<>>

\* tool_name_set of repair_tool_use_blocks, for request_tools a list
tool_name_set(request_tools) ==
    { Lower(Strip(NameStr(request_tools[2][i]))) :
        i \in { j \in 1..Len(request_tools[2]) : IsDict(request_tools[2][j]) } }
    \ { <<>> }

\* the block that replaces a tool_use block whose name is not declared
NotAvailableBlock(tool_name) ==
    JDict(<< <<S_type, JStr(S_text)>>,
             <<S_text, JStr(S_tool_open
                            \o (IF tool_name # <<>> THEN tool_name ELSE S_unknown)
                            \o S_tool_close)>> >>)

\* isinstance(block, dict) and block.get("type") == "tool_use"
IsToolUse(block) == IsDict(block) /\ DictGet(block, S_type) = JStr(S_tool_use)

NoStats == [parsed_stringified_input |-> 0, added_ids |-> 0,
            dropped_invalid_tools |-> 0]

\* a variant that compares the name with the declared names in its own case
Validated_case_sensitive(b2, tool_name, parsed, added, warned, request_tools) ==
    LET invalid == /\ request_tools # None
                   /\ \/ tool_name = <<>>
                      \/ tool_name \notin tool_name_set(request_tools)
    IN  [block   |-> IF invalid THEN NotAvailableBlock(tool_name) ELSE b2,
         parsed  |-> parsed,
         added   |-> added,
         dropped |-> IF invalid THEN 1 ELSE 0,
         warned  |-> warned,
         raised  |-> ""]

\* lines 64-72: the name is validated against the declared names
Validated(b2, tool_name, parsed, added, warned, request_tools) ==
    LET invalid == /\ request_tools # None
                   /\ \/ tool_name = <<>>
                      \/ Lower(tool_name) \notin tool_name_set(request_tools)
    IN  [block   |-> IF invalid THEN NotAvailableBlock(tool_name) ELSE b2,
         parsed  |-> parsed,
         added   |-> added,
         dropped |-> IF invalid THEN 1 ELSE 0,
         warned  |-> warned,
         raised  |-> ""]

\* a variant that generates an id for every tool_use block
WithId_always_generates(b1, tool_name, idx, no_id, parsed, warned, request_tools) ==
    Validated(DictSet(b1, S_id,
                  JStr(generate_tool_use_id(tool_name, DictGet(b1, S_input), idx))),
              tool_name, parsed, 1, warned, request_tools)

\* lines 60-62: a block without a (truthy) id gets a generated one
WithId(b1, tool_name, idx, no_id, parsed, warned, request_tools) ==
    Validated(IF no_id
              THEN DictSet(b1, S_id,
                       JStr(generate_tool_use_id(tool_name, DictGet(b1, S_input), idx)))
              ELSE b1,
              tool_name, parsed, IF no_id THEN 1 ELSE 0, warned, request_tools)

\* lines 49-58: a str input is replaced by what json.loads makes of it, or
\* kept, with a warning, when json.loads raises JSONDecodeError; any other
\* exception of json.loads leaves the function
WithInput(block, tool_name, idx, is_str, loaded, request_tools) ==
    IF is_str /\ loaded.raised \notin {"", "JSONDecodeError"}
    THEN [block |-> block, parsed |-> 0, added |-> 0, dropped |-> 0, warned |-> 0,
          raised |-> loaded.raised]
    ELSE WithId(IF is_str /\ loaded.ok THEN DictSet(block, S_input, loaded.val)
                ELSE block,
                tool_name, idx, ~Truthy(DictGet(block, S_id)),
                IF is_str /\ loaded.ok THEN 1 ELSE 0,
                IF is_str /\ ~loaded.ok THEN 1 ELSE 0,
                request_tools)

\* the loop body of repair_tool_use_blocks (lines 42-72) for the block at idx
RepairBlock(block, idx, request_tools) ==
    IF ~IsToolUse(block)
    THEN [block |-> block, parsed |-> 0, added |-> 0, dropped |-> 0, warned |-> 0,
          raised |-> ""]
    ELSE WithInput(block, Strip(NameStr(block)), idx,
                   IsStr(DictGet(block, S_input)),
                   IF IsStr(DictGet(block, S_input))
                   THEN Loads(DictGet(block, S_input)[2]) ELSE ParseFail,
                   request_tools)

\* repaired.append(...) and the stats of one block; an exception ends the call
Accumulate(acc, r) ==
    IF r.raised # "" THEN [acc EXCEPT !.raised = r.raised]
    ELSE [repaired |-> Append(acc.repaired, r.block),
          stats    |-> [parsed_stringified_input |->
                            acc.stats.parsed_stringified_input + r.parsed,
                        added_ids |-> acc.stats.added_ids + r.added,
                        dropped_invalid_tools |->
                            acc.stats.dropped_invalid_tools + r.dropped],
          warnings |-> acc.warnings + r.warned,
          raised   |-> ""]

\* for idx, block in enumerate(content), from the block at idx = i - 1
RECURSIVE RepairFrom(_, _, _, _)
RepairFrom(content, i, request_tools, acc) ==
    IF i > Len(content) \/ acc.raised # "" THEN acc
    ELSE RepairFrom(content, i + 1, request_tools,
                    Accumulate(acc, RepairBlock(content[i], i - 1, request_tools)))

\* repair_tool_use_blocks(content, request_tools): content a Python list (a
\* sequence of values), request_tools None or a list. raised = "": it returns
\* the repaired list and the stats, having logged that many invalid-JSON
\* warnings; otherwise it raises that exception and returns nothing
repair_tool_use_blocks(content, request_tools) ==
    RepairFrom(content, 1, request_tools,
               [repaired |-> <<>>, stats |-> NoStats, warnings |-> 0, raised |-> ""])

----------------------------------------------------------------------------
(* app/adapt_request.py: apply_thinking_policy *)

\* a variant of the loop body that keeps redacted_thinking blocks
ThinkingBlock_keeps_redacted(acc, block, thinking_capable) ==
    LET block_type == IF IsDict(block) THEN DictGet(block, S_type) ELSE None
        is_think   == IsDict(block) /\ block_type = JStr(S_thinking)
        is_redact  == IsDict(block) /\ block_type = JStr(S_redacted_thinking)
        keep       == ~is_think \/ thinking_capable
    IN  [kept            |-> IF keep THEN Append(acc.kept, block) ELSE acc.kept,
         thinking_blocks |-> acc.thinking_blocks + (IF is_think THEN 1 ELSE 0),
         redacted_blocks |-> acc.redacted_blocks + (IF is_redact THEN 1 ELSE 0),
         dropped_blocks  |-> acc.dropped_blocks
                             + (IF is_think /\ ~thinking_capable THEN 1 ELSE 0)]

\* the body of "for block in content" (lines 109-127) for one block
ThinkingBlockStep(acc, block, thinking_capable) ==
    LET block_type == IF IsDict(block) THEN DictGet(block, S_type) ELSE None
        is_think   == IsDict(block) /\ block_type = JStr(S_thinking)
        is_redact  == IsDict(block) /\ block_type = JStr(S_redacted_thinking)
        keep       == (~is_think /\ ~is_redact) \/ thinking_capable
    IN  [kept            |-> IF keep THEN Append(acc.kept, block) ELSE acc.kept,
         thinking_blocks |-> acc.thinking_blocks + (IF is_think THEN 1 ELSE 0),
         redacted_blocks |-> acc.redacted_blocks + (IF is_redact THEN 1 ELSE 0),
         dropped_blocks  |-> acc.dropped_blocks
                             + (IF (is_think \/ is_redact) /\ ~thinking_capable
                                THEN 1 ELSE 0)]

\* the inner loop over one message's content list (lines 107-127)
RECURSIVE ThinkingBlocksFrom(_, _, _, _)
ThinkingBlocksFrom(content, i, thinking_capable, acc) ==
    IF i > Len(content) THEN acc
    ELSE ThinkingBlocksFrom(content, i + 1, thinking_capable,
                            ThinkingBlockStep(acc, content[i], thinking_capable))

\* message["content"] = kept, and the counters carried to the next message
KeptMessage(acc, message, r) ==
    [messages        |-> Append(acc.messages, DictSet(message, S_content, JList(r.kept))),
     thinking_blocks |-> r.thinking_blocks,
     redacted_blocks |-> r.redacted_blocks,
     dropped_blocks  |-> r.dropped_blocks]

\* the outer loop over payload["messages"]
RECURSIVE ThinkingMessagesFrom(_, _, _, _)
ThinkingMessagesFrom(messages, i, thinking_capable, acc) ==
    IF i > Len(messages) THEN acc
    ELSE IF ~IsDict(messages[i]) \/ ~IsList(DictGet(messages[i], S_content))
         THEN ThinkingMessagesFrom(messages, i + 1, thinking_capable,
                 [acc EXCEPT !.messages = Append(@, messages[i])])
         ELSE ThinkingMessagesFrom(messages, i + 1, thinking_capable,
                 KeptMessage(acc, messages[i],
                    ThinkingBlocksFrom(DictGet(messages[i], S_content)[2], 1,
                       thinking_capable,
                       [kept            |-> <<>>,
                        thinking_blocks |-> acc.thinking_blocks,
                        redacted_blocks |-> acc.redacted_blocks,
                        dropped_blocks  |-> acc.dropped_blocks])))

\* ThinkingPolicyResult
ThinkingPolicyResult(thinking_blocks, redacted_blocks, dropped_blocks, thinking_capable) ==
    [thinking_blocks |-> thinking_blocks, redacted_blocks |-> redacted_blocks,
     dropped_blocks |-> dropped_blocks, thinking_capable |-> thinking_capable]

\* ThinkingPolicyResult.warning_needed
warning_needed(result) == result.dropped_blocks > 0

\* lines 131-137: the payload, its messages mutated in place, and the result
PolicyReturn(payload, thinking_capable, r) ==
    [payload |-> IF DictHas(payload, S_messages)
                 THEN DictSet(payload, S_messages, JList(r.messages))
                 ELSE payload,
     result  |-> ThinkingPolicyResult(r.thinking_blocks, r.redacted_blocks,
                                      r.dropped_blocks, thinking_capable)]

\* payload.get("messages", [])
MessagesOf(payload) ==
    IF DictHas(payload, S_messages) THEN DictGet(payload, S_messages) ELSE JList(<<>>)

\* apply_thinking_policy(payload, thinking_capable=...)
apply_thinking_policy(payload, thinking_capable) ==
    IF ~IsList(MessagesOf(payload))
    THEN [payload |-> payload,
          result  |-> ThinkingPolicyResult(0, 0, 0, thinking_capable)]
    ELSE PolicyReturn(payload, thinking_capable,
            ThinkingMessagesFrom(MessagesOf(payload)[2], 1, thinking_capable,
               [messages |-> <<>>, thinking_blocks |-> 0,
                redacted_blocks |-> 0, dropped_blocks |-> 0]))

----------------------------------------------------------------------------
(* app/adapt_response.py: stream_from_anthropic_compat *)

DoneFrame == S_data_prefix \o S_DONE \o <<"\n", "\n">>

\* f"data: {json.dumps(event, separators=(',', ':'), ensure_ascii=False)}\n\n"
EventFrame(event) == S_data_prefix \o Dumps(event) \o <<"\n", "\n">>

NoFrame == [frames |-> <<>>, log |-> <<>>, raised |-> ""]

\* lines 107-132: event["content_block"] = repaired[0], and the log records
RepairedEvent(event, r) ==
    IF r.raised # "" THEN [event |-> event, log |-> <<>>, raised |-> r.raised]
    ELSE [event  |-> IF r.repaired # <<>>
                     THEN DictSet(event, S_content_block, r.repaired[1])
                     ELSE event,
          log    |-> (IF r.warnings > 0 THEN <<"tool.use.input.invalid_json">> ELSE <<>>)
                     \o <<"tool.use.repaired">>
                     \o (IF r.stats.dropped_invalid_tools # 0
                         THEN <<"tool.use.dropped">> ELSE <<>>),
          raised |-> ""]

\* a variant that repairs tool_use start events whether or not the request
\* declared tools
RepairEvent_whatever_tools(event, request_tools) ==
    IF /\ IsDict(event)
       /\ DictGet(event, S_type) = JStr(S_content_block_start)
       /\ IsToolUse(DictGet(event, S_content_block))
    THEN RepairedEvent(event,
            repair_tool_use_blocks(<<DictGet(event, S_content_block)>>, request_tools))
    ELSE [event |-> event, log |-> <<>>, raised |-> ""]

\* the tool repair of a parsed event (lines 95-132): the event to emit and
\* the records logged, or the exception repair_tool_use_blocks raised
RepairEvent(event, request_tools) ==
    IF /\ IsDict(event)
       /\ DictGet(event, S_type) = JStr(S_content_block_start)
       /\ request_tools # None
       /\ IsToolUse(DictGet(event, S_content_block))
    THEN RepairedEvent(event,
            repair_tool_use_blocks(<<DictGet(event, S_content_block)>>, request_tools))
    ELSE [event |-> event, log |-> <<>>, raised |-> ""]

\* line 135: yield the event, repaired or not
Emit(r) ==
    IF r.raised # "" THEN [frames |-> <<>>, log |-> r.log, raised |-> r.raised]
    ELSE [frames |-> <<EventFrame(r.event)>>, log |-> r.log, raised |-> ""]

\* lines 86-135: json.loads raised JSONDecodeError, which is caught, or
\* another exception, which is not, or returned the event
TranslateLoaded(loaded, request_tools) ==
    IF loaded.ok THEN Emit(RepairEvent(loaded.val, request_tools))
    ELSE IF loaded.raised = "JSONDecodeError"
         THEN [frames |-> <<>>, log |-> <<"streaming.malformed_line">>, raised |-> ""]
         ELSE [frames |-> <<>>, log |-> <<>>, raised |-> loaded.raised]

\* lines 75-93, for the data_str of a line
TranslateData(data_str, is_data, request_tools) ==
    IF is_data /\ data_str = S_DONE
    THEN [frames |-> <<DoneFrame>>, log |-> <<>>, raised |-> ""]
    ELSE IF data_str = <<>> THEN NoFrame
    ELSE TranslateLoaded(Loads(data_str), request_tools)

\* lines 68-81, for a decoded and stripped line
TranslateStr(line_str, request_tools) ==
    IF line_str = <<>> THEN NoFrame
    ELSE IF /\ ~StartsWith(line_str, S_data_prefix)
            /\ \/ StartsWith(line_str, S_event_prefix)
               \/ StartsWith(line_str, S_id_prefix)
         THEN NoFrame
    ELSE TranslateData(IF StartsWith(line_str, S_data_prefix)
                       THEN Strip(DropFirst(line_str, 6)) ELSE line_str,
                       StartsWith(line_str, S_data_prefix), request_tools)

\* the body of "for line in lines[:-1]" for one line (lines 66-135): the
\* frame it yields, if any, the records it logs, the exception it raises
TranslateLine(line, request_tools) == TranslateStr(Strip(Decode(line)), request_tools)

\* lines 59-63: buffer += chunk; lines = buffer.split(b"\n"); buffer = lines[-1]
Segments(segs) ==
    [buffer |-> segs[Len(segs)], lines |-> SubSeq(segs, 1, Len(segs) - 1)]

\* a variant that splits the chunk alone and forgets the pending bytes
SplitChunk_forgets_pending(buf, chunk) == Segments(Split(chunk))

SplitChunk(buf, chunk) == Segments(Split(buf \o chunk))

\* the for loop from its current line up to its next yield, to its end, or
\* to the exception that ends the generator
RECURSIVE RunToYield(_, _, _)
RECURSIVE AfterLine(_, _, _, _)
RunToYield(ls, request_tools, logged) ==
    IF ls = <<>> THEN [frames |-> <<>>, log |-> logged, rest |-> <<>>, raised |-> ""]
    ELSE AfterLine(TranslateLine(Head(ls), request_tools), Tail(ls),
                   request_tools, logged)

AfterLine(r, rest, request_tools, logged) ==
    IF r.raised # ""
    THEN [frames |-> <<>>, log |-> logged \o r.log, rest |-> <<>>, raised |-> r.raised]
    ELSE IF r.frames # <<>>
    THEN [frames |-> r.frames, log |-> logged \o r.log, rest |-> rest, raised |-> ""]
    ELSE RunToYield(rest, request_tools, logged \o r.log)

----------------------------------------------------------------------------
(* bounds and the inputs drawn within them *)

MaxLines    == 2    \* lines the backend sends in one stream
MaxChunk    == 5    \* bytes in one chunk of the backend stream
MaxContent  == 2    \* blocks in the content list handed to repair
MaxThinking == 3    \* content blocks in the request handed to the thinking policy

Chars_read == <<"r","e","a","d">>
Chars_Read == <<" ","R","e","a","d">>
Chars_rm   == <<"r","m">>

ContentBlockStart(content_block) ==
    JDict(<< <<S_type, JStr(S_content_block_start)>>,
           <<S_content_block, content_block>> >>)

\* tool_use blocks as backends send them
ToolUseValid ==      \* nothing to repair
    JDict(<< <<S_type, JStr(S_tool_use)>>, <<S_id, JStr(<<"t","1">>)>>,
           <<S_name, JStr(Chars_read)>>, <<S_input, JDict(<<>>)>> >>)
ToolUseNoId ==       \* no id, name in another case, stringified input
    JDict(<< <<S_type, JStr(S_tool_use)>>, <<S_name, JStr(Chars_Read)>>,
           <<S_input, JStr(<<"{","\"","q","\"",":","\"","e'","\"","}">>)>> >>)
ToolUseNoIdObj ==    \* empty id, the name and input of ToolUseNoId once repaired
    JDict(<< <<S_type, JStr(S_tool_use)>>, <<S_name, JStr(<<"R","e","a","d">>)>>,
           <<S_input, JDict(<< <<<<"q">>, JStr(<<"e'">>)>> >>)>>,
           <<S_id, JStr(<<>>)>> >>)
ToolUseUnknown ==    \* a name no tool declares, input that is no JSON
    JDict(<< <<S_type, JStr(S_tool_use)>>, <<S_id, JStr(<<"t","2">>)>>,
           <<S_name, JStr(Chars_rm)>>, <<S_input, JStr(<<"{">>)>> >>)
ToolUseNoName ==     \* no name, no id, input with keys out of order
    JDict(<< <<S_type, JStr(S_tool_use)>>,
           <<S_input, JDict(<< <<<<"b">>, JNum(1)>>, <<<<"a">>, JNum(2)>> >>)>> >>)
ToolUseSorted ==     \* as ToolUseNoName, as a string with the keys in order
    JDict(<< <<S_type, JStr(S_tool_use)>>,
           <<S_input, JStr(<<"{","\"","a","\"",":","2",",",
                             "\"","b","\"",":","1","}">>)>> >>)
ToolUseDeep ==       \* stringified input that nests deeper than json.loads goes
    JDict(<< <<S_type, JStr(S_tool_use)>>, <<S_id, JStr(<<"t","3">>)>>,
           <<S_name, JStr(Chars_read)>>,
           <<S_input, JStr([i \in 1..(RecursionLimit + 1) |-> "["])>> >>)
TextBlock ==
    JDict(<< <<S_type, JStr(S_text)>>, <<S_text, JStr(<<"h","i">>)>> >>)
ImageBlock ==        \* a block of a type the proxy does not know
    JDict(<< <<S_type, JStr(<<"i","m","a","g","e">>)>> >>)
BareString == JStr(<<"x">>)      \* a content entry that is no dict

\* request_tools: None (the request declared no tools) or the declared list
NoTools       == None
DeclaredRead  == JList(<< JDict(<< <<S_name, JStr(Chars_read)>> >>) >>)
DeclaredMixed == JList(<< JStr(<<"x">>), JDict(<< <<S_name, JStr(<<>>)>> >>),
                          JDict(<< <<S_name, JStr(Chars_Read)>> >>) >>)
DeclaredRm    == JList(<< JDict(<< <<S_name, JStr(Chars_rm)>> >>) >>)
DeclaredNone  == JList(<<>>)

\* the lines of a backend stream, without their newline
ToolStartLine ==     \* a tool_use start event, the line ending in CR LF
    S_data_prefix \o Encode(Dumps(ContentBlockStart(ToolUseNoId))) \o <<"\r">>

DeepToolStartLine ==  \* a tool_use start event whose input nests too deep
    S_data_prefix \o Encode(Dumps(ContentBlockStart(ToolUseDeep)))

LinePool ==
    { ToolStartLine,
      DeepToolStartLine,
      [i \in 1..(RecursionLimit + 1) |-> "["],
      S_data_prefix \o S_DONE,
      <<>>,
      S_id_prefix \o <<"1">>,
      <<"{"," ","}">>,
      S_data_prefix \o <<"{","\"","a","\"">> }

----------------------------------------------------------------------------
(* app/routing.py: load_routing_config, resolve_model *)

S_aliases == <<"a","l","i","a","s","e","s">>
S_promise == <<"p","r","o","m","i","s","e">>
S_thinking_capable_models ==
    <<"t","h","i","n","k","i","n","g","_","c","a","p","a","b","l","e","_",
      "m","o","d","e","l","s">>
S_tool_calling_capable_models ==
    <<"t","o","o","l","_","c","a","l","l","i","n","g","_","c","a","p","a","b","l","e","_",
      "m","o","d","e","l","s">>
S_tool_call_streaming_enabled ==
    <<"t","o","o","l","_","c","a","l","l","_","s","t","r","e","a","m","i","n","g","_",
      "e","n","a","b","l","e","d">>

\* data.get(key, default) or default
GetOr(data, key, default) ==
    IF Truthy(DictGet(data, key)) THEN DictGet(data, key) ELSE default

\* lines 80-84: the loop over proxy_aliases.items(), from the i-th pair
RECURSIVE AliasesFrom(_, _, _, _)
AliasesFrom(proxy_aliases, user_aliases, i, acc) ==
    IF i > Len(proxy_aliases[2]) THEN acc
    ELSE LET alias == proxy_aliases[2][i][1]
             info  == proxy_aliases[2][i][2]
         IN  AliasesFrom(proxy_aliases, user_aliases, i + 1,
                [alias_to_model |->
                     IF DictHas(user_aliases, alias)
                     THEN DictSet(acc.alias_to_model, alias,
                              JStr(Strip(PyStr(DictGet(user_aliases, alias)))))
                     ELSE acc.alias_to_model,
                 promises |->
                     IF IsDict(info) /\ DictHas(info, S_promise)
                     THEN DictSet(acc.promises, alias,
                              GetOr(info, S_promise, JDict(<<>>)))
                     ELSE acc.promises])

\* lines 97-102 and 108-112: the names of a list, as str, stripped, the empty
\* ones left out; no name when the value is no list
RECURSIVE ModelNames(_, _)
ModelNames(source, i) ==
    IF ~IsList(source) \/ i > Len(source[2]) THEN <<>>
    ELSE (IF Strip(PyStr(source[2][i])) # <<>>
          THEN << Strip(PyStr(source[2][i])) >> ELSE <<>>)
         \o ModelNames(source, i + 1)

\* lines 104-107: the user file's list, when it has one, replaces the base list
ToolModelsSource(proxy_data, user_data) ==
    IF IsList(DictGet(user_data, S_tool_calling_capable_models))
    THEN GetOr(user_data, S_tool_calling_capable_models, JList(<<>>))
    ELSE GetOr(proxy_data, S_tool_calling_capable_models, JList(<<>>))

\* lines 118-120
ToolCallStreaming(proxy_data, user_data) ==
    IF DictGet(user_data, S_tool_call_streaming_enabled) # None
    THEN Truthy(DictGet(user_data, S_tool_call_streaming_enabled))
    ELSE Truthy(DictGet(proxy_data, S_tool_call_streaming_enabled))

S_verbose_tool_logging == <<"v","e","r","b","o","s","e","_","t","o","o","l","_","l","o","g","g","i","n","g">>
S_ollama_timeout_seconds == <<"o","l","l","a","m","a","_","t","i","m","e","o","u","t","_","s","e","c","o","n","d","s">>

\* lines 114-116
VerboseToolLogging(proxy_data, user_data) ==
    IF DictGet(user_data, S_verbose_tool_logging) # None
    THEN Truthy(DictGet(user_data, S_verbose_tool_logging))
    ELSE Truthy(DictGet(proxy_data, S_verbose_tool_logging))

\* the number a str of decimal digits spells, from its i-th character
RECURSIVE DigitsValue(_, _, _)
DigitsValue(s, i, acc) ==
    IF i > Len(s) THEN acc ELSE DigitsValue(s, i + 1, acc * 10 + DigitVal(s[i]))

\* float(value) for the values a YAML scalar, list or mapping loads to: the
\* number, or the exception raised. Of the strings float() reads, those of
\* decimal digits with whitespace around them are modelled
PyFloat(value) ==
    IF value[1] = "num" THEN [raised |-> "", number |-> value[2]]
    ELSE IF value = JTrue THEN [raised |-> "", number |-> 1]
    ELSE IF value = JFalse THEN [raised |-> "", number |-> 0]
    ELSE IF IsStr(value)
    THEN IF Strip(value[2]) # <<>> /\ \A i \in 1..Len(Strip(value[2])) : IsDigit(Strip(value[2])[i])
         THEN [raised |-> "", number |-> DigitsValue(Strip(value[2]), 1, 0)]
         ELSE [raised |-> "ValueError", number |-> 0]
    ELSE [raised |-> "TypeError", number |-> 0]

\* lines 76 and 122-129: ollama_timeout_seconds
OllamaTimeout(proxy_data, user_data) ==
    IF DictGet(user_data, S_ollama_timeout_seconds) = None THEN None
    ELSE IF PyFloat(DictGet(user_data, S_ollama_timeout_seconds)).raised = ""
            /\ PyFloat(DictGet(user_data, S_ollama_timeout_seconds)).number > 0
    THEN JNum(PyFloat(DictGet(user_data, S_ollama_timeout_seconds)).number)
    ELSE None

\* a variant that honours the aliases of the user file, known to the base
\* file or not
load_routing_config_user_aliases(proxy_data, user_data) ==
    LET merged == AliasesFrom(GetOr(user_data, S_aliases, JDict(<<>>)),
                              GetOr(user_data, S_aliases, JDict(<<>>)), 1,
                              [alias_to_model |-> JDict(<<>>), promises |-> JDict(<<>>)])
    IN  [alias_to_model |-> merged.alias_to_model,
         promises |-> merged.promises,
         thinking_capable_models |->
             ModelNames(GetOr(proxy_data, S_thinking_capable_models, JList(<<>>)), 1),
         tool_calling_capable_models |->
             ModelNames(ToolModelsSource(proxy_data, user_data), 1),
         verbose_tool_logging |-> VerboseToolLogging(proxy_data, user_data),
         tool_call_streaming_enabled |-> ToolCallStreaming(proxy_data, user_data),
         ollama_timeout_seconds |-> OllamaTimeout(proxy_data, user_data)]

\* load_routing_config, from what _read_yaml returned for the base file
\* (proxy_data) and for the user file (user_data), both dicts
load_routing_config(proxy_data, user_data) ==
    LET merged == AliasesFrom(GetOr(proxy_data, S_aliases, JDict(<<>>)),
                              GetOr(user_data, S_aliases, JDict(<<>>)), 1,
                              [alias_to_model |-> JDict(<<>>), promises |-> JDict(<<>>)])
    IN  [alias_to_model |-> merged.alias_to_model,
         promises |-> merged.promises,
         thinking_capable_models |->
             ModelNames(GetOr(proxy_data, S_thinking_capable_models, JList(<<>>)), 1),
         tool_calling_capable_models |->
             ModelNames(ToolModelsSource(proxy_data, user_data), 1),
         verbose_tool_logging |-> VerboseToolLogging(proxy_data, user_data),
         tool_call_streaming_enabled |-> ToolCallStreaming(proxy_data, user_data),
         ollama_timeout_seconds |-> OllamaTimeout(proxy_data, user_data)]

\* resolve_model: config.alias_to_model.get(requested, requested)
resolve_model(requested, config) ==
    IF DictHas(config.alias_to_model, requested)
    THEN DictGet(config.alias_to_model, requested)[2]
    ELSE requested

----------------------------------------------------------------------------
(* app/adapt_request.py: to_anthropic_compat, the use_tools marker, prepare_anthropic_payload *)

S_system == <<"s","y","s","t","e","m">>
S_temperature == <<"t","e","m","p","e","r","a","t","u","r","e">>
S_tools == <<"t","o","o","l","s">>
S_stream == <<"s","t","r","e","a","m">>
S_model == <<"m","o","d","e","l">>
S_user == <<"u","s","e","r">>
S_use_tools == <<"u","s","e","_","t","o","o","l","s">>

\* _ANTHROPIC_DROP_FIELDS
ANTHROPIC_DROP_FIELDS ==
    << <<"m","e","t","a","d","a","t","a">>,
       <<"p","r","o","m","p","t","_","c","a","c","h","i","n","g">>,
       <<"c","a","c","h","e","_","c","o","n","t","r","o","l">>,
       <<"t","o","o","l","_","c","h","o","i","c","e">> >>

\* _TOOL_USE_SYSTEM_INSTRUCTION
TOOL_USE_SYSTEM_INSTRUCTION ==
    <<"Y","o","u"," ","m","u","s","t"," ","c","a","l","l"," ",
      "a"," ","t","o","o","l","."," ","D","o"," ","n","o","t",
      " ","a","n","s","w","e","r"," ","i","n"," ","n","a","t",
      "u","r","a","l"," ","l","a","n","g","u","a","g","e",".">>

\* del d[k], when the key is there
DictDel(d, k) == JDict(SelectSeq(d[2], LAMBDA p : p[1] # k))

\* d.setdefault(k, v)
SetDefault(d, k, v) == IF DictHas(d, k) THEN d ELSE DictSet(d, k, v)

\* lines 64-71: a message with its content kept when it is a list or a str,
\* and "" otherwise
NormalizedMessage(message) ==
    DictSet(message, S_content,
            IF IsList(DictGet(message, S_content)) \/ IsStr(DictGet(message, S_content))
            THEN DictGet(message, S_content) ELSE JStr(<<>>))

\* lines 58-59: payload.pop(key, None) for the keys from the i-th on
RECURSIVE WithoutFields(_, _, _)
WithoutFields(payload, keys, i) ==
    IF i > Len(keys) THEN payload
    ELSE WithoutFields(DictDel(payload, keys[i]), keys, i + 1)

\* a variant that sets stream to false whatever the request says
to_anthropic_compat_overwrites_stream(dumped, resolved_model) ==
    LET payload == DictSet(DictSet(WithoutFields(dumped, ANTHROPIC_DROP_FIELDS, 1),
                                   S_model, JStr(resolved_model)),
                           S_stream, JFalse)
        messages == IF DictHas(payload, S_messages)
                    THEN DictGet(payload, S_messages)[2] ELSE <<>>
    IN  DictSet(payload, S_messages,
                JList([i \in 1..Len(messages) |-> NormalizedMessage(messages[i])]))

\* to_anthropic_compat(request, resolved_model=...): dumped is what
\* request.model_dump(exclude_none=True) returns
to_anthropic_compat(dumped, resolved_model) ==
    LET payload == SetDefault(DictSet(WithoutFields(dumped, ANTHROPIC_DROP_FIELDS, 1),
                                      S_model, JStr(resolved_model)),
                              S_stream, JFalse)
        messages == IF DictHas(payload, S_messages)
                    THEN DictGet(payload, S_messages)[2] ELSE <<>>
    IN  DictSet(payload, S_messages,
                JList([i \in 1..Len(messages) |-> NormalizedMessage(messages[i])]))

\* \w of the pattern: letters (the accented one of the alphabet too), digits
\* and the underscore
IsWordChar(c) ==
    \/ \E i \in 1..26 : c = UpperCase[i] \/ c = LowerCase[i]
    \/ IsDigit(c)
    \/ c \in {"_", "e'"}

\* _USE_TOOLS_PATTERN, \buse_tools\b with re.IGNORECASE, matches at position i
MatchesAt(text, i) ==
    /\ i + 8 <= Len(text)
    /\ Lower(SubSeq(text, i, i + 8)) = S_use_tools
    /\ i = 1 \/ ~IsWordChar(text[i - 1])
    /\ i + 9 > Len(text) \/ ~IsWordChar(text[i + 9])

\* _USE_TOOLS_PATTERN.subn("", text): the scan from position i, the text
\* kept so far in acc and the matches counted in count
RECURSIVE Subn(_, _, _, _)
Subn(text, i, acc, count) ==
    IF i > Len(text) THEN [text |-> acc, count |-> count]
    ELSE IF MatchesAt(text, i) THEN Subn(text, i + 9, acc, count + 1)
    ELSE Subn(text, i + 1, Append(acc, text[i]), count)

\* _strip_use_tools_marker(text)
strip_use_tools_marker(text) ==
    LET r == Subn(text, 1, <<>>, 0)
    IN  IF r.count = 0 THEN [text |-> text, changed |-> FALSE]
        ELSE [text |-> r.text, changed |-> TRUE]

\* lines 194-205: a block of a content list
MarkedBlock(block) ==
    IF ~IsDict(block) \/ DictGet(block, S_type) # JStr(S_text)
    THEN [block |-> block, changed |-> FALSE]
    ELSE LET r == strip_use_tools_marker(
                      IF Truthy(DictGet(block, S_text))
                      THEN PyStr(DictGet(block, S_text)) ELSE <<>>)
         IN  IF r.changed
             THEN [block |-> DictSet(block, S_text, JStr(r.text)), changed |-> TRUE]
             ELSE [block |-> block, changed |-> FALSE]

\* lines 183-208: the content of a user message, a str or a list
MarkedContent(message, content) ==
    IF IsStr(content)
    THEN LET r == strip_use_tools_marker(content[2])
         IN  [message |-> IF r.changed THEN DictSet(message, S_content, JStr(r.text))
                          ELSE message,
              found   |-> r.changed]
    ELSE IF ~IsList(content) THEN [message |-> message, found |-> FALSE]
    ELSE LET changed_any == \E i \in 1..Len(content[2]) : MarkedBlock(content[2][i]).changed
         IN  [message |-> IF changed_any
                          THEN DictSet(message, S_content,
                                   JList([i \in 1..Len(content[2]) |->
                                             MarkedBlock(content[2][i]).block]))
                          ELSE message,
              found   |-> changed_any]

\* a variant of the loop body that scans the messages of every role
MarkedMessage_any_role(message) ==
    IF ~IsDict(message) THEN [message |-> message, found |-> FALSE]
    ELSE MarkedContent(message, DictGet(message, S_content))

\* lines 178-208: the body of "for message in messages"
MarkedMessage(message) ==
    IF ~IsDict(message) \/ DictGet(message, S_role) # JStr(S_user)
    THEN [message |-> message, found |-> FALSE]
    ELSE MarkedContent(message, DictGet(message, S_content))

\* _apply_use_tools_marker(payload): the payload, its messages changed in
\* place, and the value returned
apply_use_tools_marker(payload) ==
    IF ~DictHas(payload, S_messages) \/ ~IsList(DictGet(payload, S_messages))
    THEN [payload |-> payload, found |-> FALSE]
    ELSE LET messages == DictGet(payload, S_messages)[2]
         IN  [payload |-> DictSet(payload, S_messages,
                              JList([i \in 1..Len(messages) |->
                                        MarkedMessage(messages[i]).message])),
              found   |-> \E i \in 1..Len(messages) : MarkedMessage(messages[i]).found]

\* {"type": "text", "text": text}
TextBlockOf(text) == JDict(<< <<S_type, JStr(S_text)>>, <<S_text, JStr(text)>> >>)

\* a variant that puts the instruction before the blocks of the system prompt
ensure_instruction_first(payload) ==
    LET system == DictGet(payload, S_system)
        blocks == IF IsStr(system) THEN << TextBlockOf(system[2]) >>
                  ELSE IF IsList(system) THEN system[2]
                  ELSE IF system = None THEN <<>>
                  ELSE << TextBlockOf(PyStr(system)) >>
    IN  DictSet(payload, S_system,
                JList(<< TextBlockOf(TOOL_USE_SYSTEM_INSTRUCTION) >> \o blocks))

\* _ensure_tool_use_system_instruction(payload)
ensure_tool_use_system_instruction(payload) ==
    LET system == DictGet(payload, S_system)
        blocks == IF IsStr(system) THEN << TextBlockOf(system[2]) >>
                  ELSE IF IsList(system) THEN system[2]
                  ELSE IF system = None THEN <<>>
                  ELSE << TextBlockOf(PyStr(system)) >>
    IN  DictSet(payload, S_system,
                JList(Append(blocks, TextBlockOf(TOOL_USE_SYSTEM_INSTRUCTION))))

\* lines 146-148 of prepare_anthropic_payload
Forced(marked) ==
    IF marked.found /\ Truthy(DictGet(marked.payload, S_tools))
    THEN SetDefault(ensure_tool_use_system_instruction(marked.payload),
                    S_temperature, JNum(0))
    ELSE marked.payload

\* prepare_anthropic_payload(request, routing=...): the payload, the result
\* of the thinking policy and the resolved model it returns, with the payload
\* to_anthropic_compat returned and what the marker scan made of it
PreparedFrom(compat, marked, resolved_model, routing) ==
    [compat |-> compat,
     marked |-> marked,
     policy |-> apply_thinking_policy(Forced(marked),
                    \E i \in 1..Len(routing.thinking_capable_models) :
                       routing.thinking_capable_models[i] = resolved_model),
     resolved_model |-> resolved_model]

prepare_anthropic_payload(dumped, routing) ==
    LET resolved_model == resolve_model(DictGet(dumped, S_model)[2], routing)
        compat == to_anthropic_compat(dumped, resolved_model)
    IN  PreparedFrom(compat, apply_use_tools_marker(compat), resolved_model, routing)

----------------------------------------------------------------------------
(* app/adapt_response.py: from_anthropic_compat; app/models_anthropic.py:
   MessagesResponse *)

S_assistant == <<"a","s","s","i","s","t","a","n","t">>
S_message == <<"m","e","s","s","a","g","e">>
S_stop_reason == <<"s","t","o","p","_","r","e","a","s","o","n">>
S_stop_sequence == <<"s","t","o","p","_","s","e","q","u","e","n","c","e">>
S_usage == <<"u","s","a","g","e">>
S_input_tokens == <<"i","n","p","u","t","_","t","o","k","e","n","s">>
S_output_tokens == <<"o","u","t","p","u","t","_","t","o","k","e","n","s">>
S_data == <<"d","a","t","a">>
S_tool_use_id == <<"t","o","o","l","_","u","s","e","_","i","d">>

\* a field declared "str | None = None": absent, None or a str
OptionalStr(d, key) == DictGet(d, key) = None \/ IsStr(DictGet(d, key))

\* ContentBlock: the union accepts a dict that one of its members accepts.
\* ContentBlockFallback takes any dict whose type is a str; a dict without a
\* type is taken by a member whose type has a default and whose required
\* fields are there
ContentBlockAccepts(block) ==
    /\ IsDict(block)
    /\ IF DictHas(block, S_type) THEN IsStr(DictGet(block, S_type))
       ELSE \/ IsStr(DictGet(block, S_text))
            \/ IsStr(DictGet(block, S_thinking)) /\ OptionalStr(block, <<"s","i","g","n","a","t","u","r","e">>)
            \/ IsStr(DictGet(block, S_data))
            \/ IsStr(DictGet(block, S_id)) /\ IsStr(DictGet(block, S_name))
               /\ DictHas(block, S_input)
            \/ IsStr(DictGet(block, S_tool_use_id)) /\ DictHas(block, S_content)

\* Usage: two int fields with defaults
UsageAccepts(usage) ==
    \/ usage = None
    \/ /\ IsDict(usage)
       /\ \A k \in {S_input_tokens, S_output_tokens} :
             ~DictHas(usage, k) \/ DictGet(usage, k)[1] = "num"

\* MessagesResponse.model_validate(normalized) raises no ValidationError
MessagesResponseAccepts(normalized) ==
    /\ OptionalStr(normalized, S_id)
    /\ DictHas(normalized, S_type) => DictGet(normalized, S_type) = JStr(S_message)
    /\ DictHas(normalized, S_role) => DictGet(normalized, S_role) = JStr(S_assistant)
    /\ IsStr(DictGet(normalized, S_model))
    /\ DictHas(normalized, S_content) =>
          /\ IsList(DictGet(normalized, S_content))
          /\ \A i \in 1..Len(DictGet(normalized, S_content)[2]) :
                ContentBlockAccepts(DictGet(normalized, S_content)[2][i])
    /\ OptionalStr(normalized, S_stop_reason)
    /\ OptionalStr(normalized, S_stop_sequence)
    /\ DictHas(normalized, S_usage) => /\ DictGet(normalized, S_usage) # None
                                       /\ UsageAccepts(DictGet(normalized, S_usage))

\* the model instance model_validate returns: the fields given, and the
\* defaults of the declared fields that were not given
MessagesResponseOf(normalized) ==
    SetDefault(SetDefault(SetDefault(SetDefault(SetDefault(SetDefault(SetDefault(
        normalized,
        S_id, None), S_type, JStr(S_message)), S_role, JStr(S_assistant)),
        S_content, JList(<<>>)), S_stop_reason, None), S_stop_sequence, None),
        S_usage, JDict(<< <<S_input_tokens, JNum(0)>>, <<S_output_tokens, JNum(0)>> >>))

\* raise HTTPException(status_code=502, detail="Invalid Ollama response payload")
InvalidPayload ==
    [raised |-> "HTTPException", status_code |-> 502, response |-> None,
     repair_ran |-> FALSE, repair_stats |-> NoStats]

\* lines 33-37
ValidatedResponse(normalized, repair_ran, repair_stats) ==
    IF MessagesResponseAccepts(normalized)
    THEN [raised |-> "", status_code |-> 0, response |-> MessagesResponseOf(normalized),
          repair_ran |-> repair_ran, repair_stats |-> repair_stats]
    ELSE InvalidPayload

\* lines 30-32: the repaired content, or the exception of the repair, which
\* nothing here catches
RepairedResponse(normalized, repair) ==
    IF repair.raised # ""
    THEN [raised |-> repair.raised, status_code |-> 0, response |-> None,
          repair_ran |-> TRUE, repair_stats |-> NoStats]
    ELSE ValidatedResponse(DictSet(normalized, S_content, JList(repair.repaired)),
                           TRUE, repair.stats)

\* a variant that leaves the model value of the backend payload in place
WithModel_keeps_backend(payload, model) ==
    IF DictHas(payload, S_model) THEN payload ELSE DictSet(payload, S_model, JStr(model))

\* lines 23-24: normalized = dict(payload); normalized["model"] = model
WithModel(payload, model) == DictSet(payload, S_model, JStr(model))

\* from_anthropic_compat(payload, model=..., request_tools=...)
from_anthropic_compat(payload, model, request_tools) ==
    IF ~IsDict(payload) THEN InvalidPayload
    ELSE IF ~IsList(DictGet(WithModel(payload, model), S_content))
    THEN ValidatedResponse(DictSet(WithModel(payload, model), S_content, JList(<<>>)),
                           FALSE, NoStats)
    ELSE IF request_tools # None
    THEN RepairedResponse(WithModel(payload, model),
             repair_tool_use_blocks(DictGet(payload, S_content)[2], request_tools))
    ELSE ValidatedResponse(WithModel(payload, model), FALSE, NoStats)

----------------------------------------------------------------------------
(* app/capability.py: get_tool_capability; app/transport.py: show_model *)

S_capabilities == <<"c","a","p","a","b","i","l","i","t","i","e","s">>

\* what the HTTP client gave for POST /api/show: a httpx.RequestError, or a
\* response with its status code and the text of its body
RequestError == [request_error |-> TRUE, status_code |-> 0, text |-> <<>>]
HttpResponse(status_code, text) ==
    [request_error |-> FALSE, status_code |-> status_code, text |-> text]

\* lines 128-129: data = response.json(), given what json.loads made of the
\* body; return data if isinstance(data, dict) else {}
ShownData(loaded) ==
    IF ~loaded.ok THEN [raised |-> loaded.raised, data |-> None]
    ELSE [raised |-> "", data |-> IF IsDict(loaded.val) THEN loaded.val ELSE JDict(<<>>)]

\* OllamaClient.show_model(model), given what the HTTP client gave: the dict
\* returned, or the exception raised
show_model(reply) ==
    IF reply.request_error \/ reply.status_code >= 400
    THEN [raised |-> "HTTPException", data |-> None]
    ELSE ShownData(Loads(reply.text))

\* _normalize_capabilities(value), from the i-th item
RECURSIVE NormalizeFrom(_, _)
NormalizeFrom(value, i) ==
    IF i > Len(value[2]) THEN <<>>
    ELSE (IF Strip(PyStr(value[2][i])) # <<>>
          THEN << Lower(Strip(PyStr(value[2][i]))) >> ELSE <<>>)
         \o NormalizeFrom(value, i + 1)

normalize_capabilities(value) ==
    IF ~IsList(value) THEN <<>> ELSE NormalizeFrom(value, 1)

\* line 34
CapabilityOf(capabilities) ==
    IF \E i \in 1..Len(capabilities) : capabilities[i] = S_tools
    THEN "structured" ELSE "none"

\* a variant that consults the cache before the allow-list
BeforeAwait_cache_first(model, tool_models, cache) ==
    IF cache[model] # ""
    THEN [returns |-> TRUE, value |-> cache[model]]
    ELSE IF \E i \in 1..Len(tool_models) : tool_models[i] = model
    THEN [returns |-> TRUE, value |-> "structured"]
    ELSE [returns |-> FALSE, value |-> ""]

\* get_tool_capability up to its await (lines 24-32): the value it returns at
\* once, or that it goes on to call the backend. cache[model] = "" stands for
\* a model that is no key of _capability_cache
BeforeAwait(model, tool_models, cache) ==
    IF \E i \in 1..Len(tool_models) : tool_models[i] = model
    THEN [returns |-> TRUE, value |-> "structured"]
    ELSE IF cache[model] # ""
    THEN [returns |-> TRUE, value |-> cache[model]]
    ELSE [returns |-> FALSE, value |-> ""]

\* a variant that returns the capability without storing it
Detected_never_caches(model, capability, cache) ==
    [cache |-> cache, value |-> capability, warned |-> FALSE]

\* lines 35-36: _capability_cache[model] = capability; return capability
Detected(model, capability, cache) ==
    [cache |-> [cache EXCEPT ![model] = capability], value |-> capability,
     warned |-> FALSE]

\* get_tool_capability from the return of show_model on (lines 32-42): the
\* cache it leaves, the value it returns, and whether it logged
\* tool.capability.detect.failed
AfterAwait(model, shown, cache) ==
    IF shown.raised # ""
    THEN [cache |-> cache, value |-> "none", warned |-> TRUE]
    ELSE Detected(model,
                  CapabilityOf(normalize_capabilities(DictGet(shown.data, S_capabilities))),
                  cache)

----------------------------------------------------------------------------
(* app/auth.py: require_auth; app/main.py: messages *)

S_bearer == <<"b","e","a","r","e","r">>

\* value or ""
OrEmpty(value) == IF Truthy(value) THEN value[2] ELSE <<>>

\* s.split(" ", 1)
RECURSIVE SplitOnceFrom(_, _)
SplitOnceFrom(s, i) ==
    IF i > Len(s) THEN << s >>
    ELSE IF s[i] = " " THEN << SubSeq(s, 1, i - 1), SubSeq(s, i + 1, Len(s)) >>
    ELSE SplitOnceFrom(s, i + 1)

SplitOnce(s) == SplitOnceFrom(s, 1)

\* _expected_key(): the key, or <<>> when it raises the 500 HTTPException
expected_key(env_key) == Strip(OrEmpty(env_key))

\* lines 56-60
BearerMatch(authorization, expected) ==
    /\ Strip(OrEmpty(authorization)) # <<>>
    /\ Len(SplitOnce(OrEmpty(authorization))) = 2
    /\ Lower(SplitOnce(OrEmpty(authorization))[1]) = S_bearer
    /\ Strip(SplitOnce(OrEmpty(authorization))[2]) = expected

\* a variant that takes any x-api-key header that is present
XApiKeyMatch_any_key(x_api_key, expected) ==
    Strip(OrEmpty(x_api_key)) # <<>>

\* lines 67-68
XApiKeyMatch(x_api_key, expected) ==
    /\ Strip(OrEmpty(x_api_key)) # <<>>
    /\ Strip(OrEmpty(x_api_key)) = expected

\* require_auth(request=..., authorization=..., x_api_key=...): 0 when it
\* returns, else the status code of the HTTPException it raises
require_auth(env_key, authorization, x_api_key) ==
    IF expected_key(env_key) = <<>> THEN 500
    ELSE IF BearerMatch(authorization, expected_key(env_key)) THEN 0
    ELSE IF XApiKeyMatch(x_api_key, expected_key(env_key)) THEN 0
    ELSE 401

\* main.py lines 111-113: request_tools
RequestTools(request) ==
    IF ~IsList(DictGet(request, S_tools)) \/ DictGet(request, S_tools)[2] = <<>>
    THEN None ELSE DictGet(request, S_tools)

\* raise HTTPException(status_code=400, detail={"error": {"type":
\* "invalid_request_error", ...}})
InvalidRequest == [status_code |-> 400, error_type |-> "invalid_request_error", call |-> ""]

\* a variant that lets a request with tools through whatever the capability
AfterDetection_ignores_capability(capability, adapted, request_tools, streaming_enabled) ==
    IF Truthy(DictGet(adapted, S_stream)) /\ request_tools # None /\ ~streaming_enabled
    THEN InvalidRequest
    ELSE [status_code |-> 0, error_type |-> "",
          call |-> IF Truthy(DictGet(adapted, S_stream)) THEN "stream" ELSE "chat"]

\* main.py lines 128-180, from the capability on: the 400 raised, or the
\* backend call made. capability is "" when no detection was run
AfterDetection(capability, adapted, request_tools, streaming_enabled) ==
    IF request_tools # None /\ capability = "none" THEN InvalidRequest
    ELSE IF Truthy(DictGet(adapted, S_stream)) /\ request_tools # None /\ ~streaming_enabled
    THEN InvalidRequest
    ELSE [status_code |-> 0, error_type |-> "",
          call |-> IF Truthy(DictGet(adapted, S_stream)) THEN "stream" ELSE "chat"]

\* main.py lines 95-116: the routing, the adapted payload, request_tools, and
\* get_tool_capability up to its await when the request declares tools
Entered(request, proxy_data, user_data, cache) ==
    [routing  |-> load_routing_config(proxy_data, user_data),
     prepared |-> prepare_anthropic_payload(request, load_routing_config(proxy_data, user_data)),
     request_tools |-> RequestTools(request),
     lookup   |-> IF RequestTools(request) = None
                  THEN [returns |-> TRUE, value |-> ""]
                  ELSE BeforeAwait(
                          resolve_model(DictGet(request, S_model)[2],
                                        load_routing_config(proxy_data, user_data)),
                          load_routing_config(proxy_data, user_data).tool_calling_capable_models,
                          cache)]

\* OllamaClient.chat_anthropic_compat(payload), given what the HTTP client
\* gave: the dict returned, or the exception raised
chat_anthropic_compat(reply) ==
    IF reply.request_error \/ reply.status_code >= 400
    THEN [raised |-> "HTTPException", data |-> None]
    ELSE ShownData(Loads(reply.text))

\* main.py lines 181-196 given what the HTTP client gave for the chat call:
\* the status of the response to the client
ChatStatus(reply, model, request_tools) ==
    IF chat_anthropic_compat(reply).raised = "HTTPException" THEN 502
    ELSE IF chat_anthropic_compat(reply).raised # "" THEN 500
    ELSE IF from_anthropic_compat(chat_anthropic_compat(reply).data, model, request_tools).raised
               = "HTTPException" THEN 502
    ELSE IF from_anthropic_compat(chat_anthropic_compat(reply).data, model, request_tools).raised # ""
    THEN 500
    ELSE 200

\* main.py lines 198-204: the warnings the repair stats give
RepairWarnings(repair_stats) ==
    (IF repair_stats.added_ids # 0 \/ repair_stats.parsed_stringified_input # 0
     THEN << "tool_use_repaired" >> ELSE <<>>)
    \o (IF repair_stats.dropped_invalid_tools # 0 THEN << "tool_use_dropped" >> ELSE <<>>)

\* main.py lines 182-206: the tokens of response.headers["X-CC-Proxy-Warning"],
\* which the code joins with ","; <<>> when the header is not set. repair_ran
\* says that repair_stats is no empty dict
WarningHeader(thinking_result, repair_ran, repair_stats) ==
    IF repair_ran /\ RepairWarnings(repair_stats) # <<>>
    THEN RepairWarnings(repair_stats)
    ELSE IF warning_needed(thinking_result) THEN << "thinking_dropped" >> ELSE <<>>

\* main.py lines 180-240 given what the HTTP client gave for the chat call:
\* the status of the response, its warning header and the repair stats
ChatOutcome(reply, model, request_tools, thinking_result) ==
    IF ChatStatus(reply, model, request_tools) # 200
    THEN [status_code |-> ChatStatus(reply, model, request_tools), warning |-> <<>>,
          repair_stats |-> NoStats]
    ELSE [status_code |-> 200,
          warning |-> WarningHeader(thinking_result,
                         from_anthropic_compat(chat_anthropic_compat(reply).data, model,
                                               request_tools).repair_ran,
                         from_anthropic_compat(chat_anthropic_compat(reply).data, model,
                                               request_tools).repair_stats),
          repair_stats |-> from_anthropic_compat(chat_anthropic_compat(reply).data, model,
                                                 request_tools).repair_stats]

\* chat_anthropic_compat_stream(payload) up to its first chunk, given what the
\* HTTP client gave: the exception raised inside the body iterator, "" if none
StreamRaised(reply) ==
    IF reply.request_error \/ reply.status_code >= 400 THEN "HTTPException" ELSE ""

----------------------------------------------------------------------------
(* the state of the request path: routing, request adaptation *)

VARIABLES
    proxy_data,      \* routing: what _read_yaml returned for the base file
    user_data,       \* routing: what _read_yaml returned for the user file
    requested,       \* routing: the name handed to resolve_model
    resolved,        \* routing: what resolve_model returned
    request,         \* adaptation: request.model_dump(exclude_none=True)
    routing,         \* what load_routing_config returned
    prepared,        \* adaptation: what prepare_anthropic_payload returned
    compat,          \* adaptation: what to_anthropic_compat returned
    aphase           \* "input", "routed", "resolved", "prepared"

VARIABLES
    compat_payload,  \* response: the payload argument of from_anthropic_compat
    client_model,    \* response: its model argument
    adapted_response,\* response: what it returned or raised
    pphase           \* response: "input", "adapted"

pvars == <<compat_payload, client_model, adapted_response, pphase>>

ResponseIdle ==
    /\ compat_payload = <<>> /\ client_model = <<>> /\ adapted_response = <<>>
    /\ pphase = "idle"

VARIABLES
    capability_cache,\* capability: _capability_cache, "" for a model that is no key
    calls,           \* capability: each caller's call of get_tool_capability
    started,         \* capability: the calls started so far
    shown,           \* capability: the answers of the backend, each with the model
                     \* it was asked to show, as a bag
    caller           \* capability: the caller that took the last step

cvars == <<capability_cache, calls, started, shown, caller>>

CapabilityIdle ==
    /\ capability_cache = <<>> /\ calls = <<>> /\ started = 0 /\ shown = <<>>
    /\ caller = ""

avars == <<proxy_data, user_data, requested, resolved, request, routing, prepared, compat,
          aphase>>

PrepareIdle ==
    /\ proxy_data = <<>> /\ user_data = <<>> /\ requested = <<>> /\ resolved = <<>>
    /\ request = <<>> /\ routing = <<>>
    /\ prepared = <<>> /\ compat = <<>> /\ aphase = "idle"

VARIABLES
    env_key,         \* handler: os.getenv("CC_PROXY_AUTH_KEY")
    authorization,   \* handler: the Authorization header of the request
    x_api_key,       \* handler: its x-api-key header
    declared_tools,  \* handler: request_tools of messages()
    capability,      \* handler: what get_tool_capability returned, "" before
    status_code,     \* handler: the status of the response, 0 before
    error_type,      \* handler: the error type of a 400 response
    backend_calls,   \* handler: the calls made to the backend, in order
    upstream_reply,  \* handler: what the HTTP client gave for the chat or stream call
    warning_header,  \* handler: the tokens of X-CC-Proxy-Warning, <<>> when not set
    response_stats,  \* handler: repair_stats of the response
    stream_raised,   \* handler: the exception raised inside the streamed body
    hphase           \* handler: "received", "authorized", "detecting", "calling",
                     \* "streaming", "responded"

mvars == <<env_key, authorization, x_api_key, declared_tools, capability, status_code,
           error_type, backend_calls, upstream_reply, warning_header, response_stats,
           stream_raised, hphase>>

MessagesIdle ==
    /\ env_key = <<>> /\ authorization = <<>> /\ x_api_key = <<>>
    /\ declared_tools = <<>> /\ capability = "" /\ status_code = 0
    /\ error_type = "" /\ backend_calls = <<>> /\ upstream_reply = <<>>
    /\ warning_header = <<>> /\ response_stats = <<>> /\ stream_raised = ""
    /\ hphase = "idle"

\* the variables of the request path, and their values while it is not run
xvars == <<avars, pvars, cvars, mvars>>
PathIdle == PrepareIdle /\ ResponseIdle /\ CapabilityIdle /\ MessagesIdle

----------------------------------------------------------------------------
(* the stream translator as a state machine *)

VARIABLES
    upstream,        \* the bytes the backend has written to the connection
    written,         \* the lines it has written
    pos,             \* how many of the bytes chunk_iterator has delivered
    request_tools,   \* the request_tools argument
    buffer,          \* the local buffer
    lines,           \* the lines of the for loop not yet iterated
    out,             \* the frames yielded so far
    log,             \* the events logged so far
    closed,          \* the generator has ended: the chunk iterator was exhausted
                     \* and it returned, or an exception left it
    error,           \* the exception that left the generator, "" if none
    mid_json_split,  \* the last chunk completed a line that began in an earlier
                     \* chunk, neither part being an event by itself
    content,         \* repair: the content argument
    first,           \* repair: what repair_tool_use_blocks returned
    again,           \* repair: what a second call returned
    tools2,          \* repair: the request_tools of the second call
    shift,           \* repair: blocks put before the content in the second call
    rphase,          \* repair: "input", "repaired", "again"
    payload,         \* thinking policy: the payload argument
    thinking_capable,\* thinking policy: the thinking_capable argument
    policy,          \* thinking policy: what apply_thinking_policy returned
    tphase           \* thinking policy: "input", "applied"

svars == <<upstream, written, pos, request_tools, buffer, lines, out, log, closed, error,
           mid_json_split>>
rvars == <<content, first, again, tools2, shift, rphase>>
tvars == <<payload, thinking_capable, policy, tphase>>
vars  == <<upstream, written, pos, request_tools, buffer, lines, out, log, closed, error,
           mid_json_split, content, first, again, tools2, shift, rphase,
           payload, thinking_capable, policy, tphase, xvars>>

NoResult == [repaired |-> <<>>, stats |-> NoStats, warnings |-> 0, raised |-> ""]
NoPolicy == [payload |-> None, result |-> ThinkingPolicyResult(0, 0, 0, FALSE)]

StreamIdle ==
    /\ upstream = <<>> /\ written = 0 /\ pos = 0 /\ buffer = <<>> /\ lines = <<>>
    /\ out = <<>> /\ log = <<>> /\ closed = TRUE /\ error = ""
    /\ mid_json_split = FALSE

RepairIdle ==
    /\ content = <<>> /\ first = NoResult /\ again = NoResult
    /\ tools2 = None /\ shift = 0 /\ rphase = "idle"

ThinkingIdle ==
    /\ payload = None /\ thinking_capable = FALSE /\ policy = NoPolicy
    /\ tphase = "idle"

StreamInit ==
    /\ upstream = <<>>
    /\ written = 0
    /\ request_tools \in {NoTools, DeclaredRead, DeclaredRm}
    /\ pos = 0
    /\ buffer = <<>>
    /\ lines = <<>>
    /\ out = <<>>
    /\ log = <<>>
    /\ closed = FALSE
    /\ error = ""
    /\ mid_json_split = FALSE
    /\ RepairIdle
    /\ ThinkingIdle
    /\ PathIdle

\* whether the chunk ends a line whose first part was pending, where neither
\* part alone yields a frame and the whole line does
MidJsonSplit(buf, chunk, tools) ==
    /\ buf # <<>>
    /\ Len(Split(chunk)) > 1
    /\ Split(chunk)[1] # <<>>
    /\ { l \in {buf, Split(chunk)[1], buf \o Split(chunk)[1]} :
            TranslateLine(l, tools).frames # <<>> }
       = { buf \o Split(chunk)[1] }

\* what the generator does with a chunk: lines 59-65, then the for loop up to
\* its first yield
TakeChunk(buf, chunk, tools) ==
    [buffer |-> SplitChunk(buf, chunk).buffer,
     run    |-> RunToYield(SplitChunk(buf, chunk).lines, tools, <<>>)]

\* the backend writes its next line; it runs less than a chunk ahead of the
\* bytes delivered
BackendWrites(l) ==
    /\ ~closed
    /\ written < MaxLines
    /\ Len(upstream) - pos < MaxChunk
    /\ upstream' = upstream \o l \o <<"\n">>
    /\ written' = written + 1
    /\ UNCHANGED <<pos, request_tools, buffer, lines, out, log, closed, error,
                   mid_json_split, rvars, tvars, xvars>>

\* "async for chunk in chunk_iterator" delivers the next n bytes
Feed(n) ==
    /\ ~closed
    /\ lines = <<>>
    /\ pos + n <= Len(upstream)
    /\ \E t \in { TakeChunk(buffer, SubSeq(upstream, pos + 1, pos + n), request_tools) } :
           /\ buffer' = t.buffer
           /\ lines' = t.run.rest
           /\ out' = out \o t.run.frames
           /\ log' = log \o t.run.log
           /\ error' = t.run.raised
           /\ closed' = (t.run.raised # "")
    /\ mid_json_split' =
           MidJsonSplit(buffer, SubSeq(upstream, pos + 1, pos + n), request_tools)
    /\ pos' = pos + n
    /\ UNCHANGED <<upstream, written, request_tools, rvars, tvars, xvars>>

\* the consumer asks for the next frame: the for loop resumes after its yield
Resume ==
    /\ ~closed
    /\ lines # <<>>
    /\ \E r \in { RunToYield(lines, request_tools, <<>>) } :
           /\ lines' = r.rest
           /\ out' = out \o r.frames
           /\ log' = log \o r.log
           /\ error' = r.raised
           /\ closed' = (r.raised # "")
    /\ UNCHANGED <<upstream, written, pos, request_tools, buffer,
                   mid_json_split, rvars, tvars, xvars>>

\* a variant that translates the pending bytes as a last line
Close_flushes_pending ==
    /\ ~closed
    /\ lines = <<>>
    /\ closed' = TRUE
    /\ out' = out \o TranslateLine(buffer, request_tools).frames
    /\ log' = log
    /\ UNCHANGED <<upstream, written, pos, request_tools, buffer, lines, error,
                   mid_json_split, rvars, tvars, xvars>>

\* the chunk iterator ends after the bytes delivered, the backend having
\* closed the stream (mid-line when bytes are pending): lines 137-142
Close ==
    /\ ~closed
    /\ lines = <<>>
    /\ closed' = TRUE
    /\ log' = log \o (IF Strip(buffer) # <<>>
                      THEN <<"streaming.trailing_buffer">> ELSE <<>>)
    /\ UNCHANGED <<upstream, written, pos, request_tools, buffer, lines, out, error,
                   mid_json_split, rvars, tvars, xvars>>

Next ==
    \/ \E l \in LinePool : BackendWrites(l)
    \/ \E n \in 0..MaxChunk : Feed(n)
    \/ Resume
    \/ Close

Spec == StreamInit /\ [][Next]_vars

----------------------------------------------------------------------------
(* repair_tool_use_blocks applied to drawn inputs *)

BlockPool ==
    { ToolUseValid, ToolUseNoId, ToolUseNoIdObj, ToolUseUnknown, ToolUseNoName,
      ToolUseSorted, ToolUseDeep, TextBlock, ImageBlock, BareString }

ToolsPool == { NoTools, DeclaredRead, DeclaredMixed, DeclaredRm, DeclaredNone }

RECURSIVE ListsOf(_, _)
ListsOf(pool, n) ==
    IF n = 0 THEN { <<>> }
    ELSE LET shorter == ListsOf(pool, n - 1) IN
         shorter \cup { Append(l, b) : l \in shorter, b \in pool }

RepairInit ==
    /\ content \in ListsOf(BlockPool, MaxContent)
    /\ request_tools \in ToolsPool
    /\ first = NoResult /\ again = NoResult /\ tools2 = None /\ shift = 0
    /\ rphase = "input"
    /\ StreamIdle
    /\ ThinkingIdle
    /\ PathIdle

\* repaired, stats = repair_tool_use_blocks(content, request_tools)
Repair ==
    /\ rphase = "input"
    /\ first' = repair_tool_use_blocks(content, request_tools)
    /\ rphase' = "repaired"
    /\ UNCHANGED <<content, again, tools2, shift, svars, tvars, xvars>>

\* the content list of a second call: k text blocks, then the same blocks
Shifted(c, k) == [i \in 1..k |-> TextBlock] \o c

\* a second call, for the same blocks at positions moved by k, with the
\* request_tools t
RepairAgain(t, k) ==
    /\ rphase = "repaired"
    /\ again' = repair_tool_use_blocks(Shifted(content, k), t)
    /\ tools2' = t
    /\ shift' = k
    /\ rphase' = "again"
    /\ UNCHANGED <<content, first, svars, tvars, xvars>>

RepairNext ==
    \/ Repair
    \/ \E t \in ToolsPool, k \in 0..1 : RepairAgain(t, k)

SpecRepair == RepairInit /\ [][RepairNext]_vars

----------------------------------------------------------------------------
(* apply_thinking_policy applied to drawn inputs *)

ThinkingBlock ==
    JDict(<< <<S_type, JStr(S_thinking)>>, <<S_thinking, JStr(<<"t">>)>> >>)
RedactedBlock ==
    JDict(<< <<S_type, JStr(S_redacted_thinking)>>, <<<<"d","a","t","a">>, JStr(<<"d">>)>> >>)

ThinkingPool == { ThinkingBlock, RedactedBlock, TextBlock, ImageBlock, BareString }

Message(role, c) == JDict(<< <<S_role, JStr(role)>>, <<S_content, c>> >>)

Chars_user      == <<"u","s","e","r">>
Chars_assistant == <<"a","s","s","i","s","t","a","n","t">>

\* a request whose list contents are the blocks bl, the first k of them in an
\* assistant message and the others in a later user message, with a message
\* of string content between the two when with_string
PayloadOf(bl, k, with_string) ==
    JDict(<< <<<<"m","o","d","e","l">>, JStr(<<"m">>)>>,
           <<S_messages,
             JList(<< Message(Chars_assistant, JList(SubSeq(bl, 1, k))) >>
                   \o (IF with_string
                       THEN << Message(Chars_user, JStr(S_thinking)) >>
                       ELSE <<>>)
                   \o << Message(Chars_user, JList(SubSeq(bl, k + 1, Len(bl)))) >>)>> >>)

ThinkingInit ==
    /\ \E bl \in ListsOf(ThinkingPool, MaxThinking) :
       \E k \in 0..Len(bl), with_string \in BOOLEAN :
          payload = PayloadOf(bl, k, with_string)
    /\ thinking_capable \in BOOLEAN
    /\ policy = NoPolicy
    /\ tphase = "input"
    /\ StreamIdle
    /\ request_tools = None
    /\ RepairIdle
    /\ PathIdle

\* payload, result = apply_thinking_policy(payload, thinking_capable=...)
ApplyThinkingPolicy ==
    /\ tphase = "input"
    /\ policy' = apply_thinking_policy(payload, thinking_capable)
    /\ tphase' = "applied"
    /\ UNCHANGED <<payload, thinking_capable, svars, rvars, xvars>>

ThinkingNext == ApplyThinkingPolicy

SpecThinking == ThinkingInit /\ [][ThinkingNext]_vars

----------------------------------------------------------------------------
(* properties of the stream translator, checked under Spec *)

\* the bytes the translator has consumed so far
Delivered == SubSeq(upstream, 1, pos)

\* what the generator makes of a list of lines when nothing interrupts it:
\* the frames, after those of acc, and the exception that ends it, if any
RECURSIVE RunAll(_, _, _)
RECURSIVE RunOn(_, _, _, _)
RunAll(ls, tools, acc) ==
    IF ls = <<>> THEN [frames |-> acc, raised |-> ""]
    ELSE RunOn(TranslateLine(Head(ls), tools), Tail(ls), tools, acc)

RunOn(r, rest, tools, acc) ==
    IF r.raised # "" THEN [frames |-> acc, raised |-> r.raised]
    ELSE RunAll(rest, tools, acc \o r.frames)

\* the same for bytes that arrive as a single chunk
OneChunk(bytes, tools) == RunAll(SplitChunk(<<>>, bytes).lines, tools, <<>>)

\* the frames yielded so far with those of the lines of the current chunk
\* still to be iterated, and the exception that has ended or will end the
\* generator
Outcome(due) ==
    [frames |-> due.frames, raised |-> IF error # "" THEN error ELSE due.raised]

RunDue == Outcome(RunAll(lines, request_tools, out))

\* the position of the last newline of the bytes, 0 if there is none
LastOf(positions) ==
    IF positions = {} THEN 0
    ELSE CHOOSE i \in positions : \A j \in positions : j <= i

LastNewline(bytes) == LastOf({ i \in 1..Len(bytes) : bytes[i] = "\n" })

\* the newline-terminated lines of the bytes, and the bytes after them
LinesUpTo(bytes, last) ==
    IF last = 0 THEN <<>> ELSE Split(SubSeq(bytes, 1, last - 1))

CompleteLines(bytes) == LinesUpTo(bytes, LastNewline(bytes))

Unterminated(bytes) == SubSeq(bytes, LastNewline(bytes) + 1, Len(bytes))

\* the complete lines the translator has consumed
LinesDelivered == CompleteLines(Delivered)

\* a line as the spec reads it: decoded and trimmed, its payload the rest
\* after a "data: " prefix, or the line itself
LineStr(l) == Strip(Decode(l))

DataOf(l) ==
    IF StartsWith(LineStr(l), S_data_prefix)
    THEN Strip(DropFirst(LineStr(l), 6)) ELSE LineStr(l)

IsDoneLine(l) == StartsWith(LineStr(l), S_data_prefix) /\ DataOf(l) = S_DONE

IsJsonLine(l) == ~IsDoneLine(l) /\ Loads(DataOf(l)).ok

IsEventLine(l) == IsDoneLine(l) \/ IsJsonLine(l)

IsMetadataLine(l) ==
    /\ ~StartsWith(LineStr(l), S_data_prefix)
    /\ StartsWith(LineStr(l), S_event_prefix) \/ StartsWith(LineStr(l), S_id_prefix)

IsMalformedLine(l) ==
    /\ DataOf(l) # <<>>
    /\ ~IsMetadataLine(l)
    /\ ~IsEventLine(l)

\* the event a frame carries: the JSON between "data: " and the blank line
FrameEvent(frame) == Loads(SubSeq(frame, 7, Len(frame) - 2))

IsToolStart(e) ==
    /\ IsDict(e)
    /\ DictGet(e, S_type) = JStr(S_content_block_start)
    /\ IsToolUse(DictGet(e, S_content_block))

\* whether the trimmed name of a tool_use block is empty or matches, whatever
\* the case, the trimmed name of no declared tool
Undeclared(block, tools) ==
    \/ Strip(NameStr(block)) = <<>>
    \/ ~ \E i \in 1..Len(tools[2]) :
            /\ IsDict(tools[2][i])
            /\ Lower(Strip(NameStr(tools[2][i]))) = Lower(Strip(NameStr(block)))

\* the text block that stands for a tool_use block that was dropped
NotAvailableText(block) ==
    JDict(<< <<S_type, JStr(S_text)>>,
             <<S_text, JStr(S_tool_open
                            \o (IF Strip(NameStr(block)) = <<>> THEN S_unknown
                                ELSE Strip(NameStr(block)))
                            \o S_tool_close)>> >>)

\* C1: the frames depend on the concatenation of the chunks only: however the
\* bytes consumed so far were cut into chunks, the frames (and the exception,
\* if one ends the stream) are those of the same bytes arriving as one chunk;
\* a line cut in the middle of its JSON gives one event, as the uncut line does
C1_ChunkingIndependent ==
    RunDue = OneChunk(Delivered, request_tools)

\* a chunk has just completed a line whose earlier part was pending, neither
\* part an event by itself, and the line gave its single frame
C1_Witness ==
    /\ mid_json_split
    /\ lines = <<>>
    /\ Len(out) = 1
    /\ out = OneChunk(Delivered, request_tools).frames
    /\ out[1] # DoneFrame

\* C2, the frames: the frames yielded are, in order, the frames of the
\* complete lines that are a [DONE] marker or a payload json.loads accepts,
\* one frame for each of them, none for any other line
C2_FramePerEventLine ==
    \E ev \in { SelectSeq(LinesDelivered, IsEventLine) } :
       /\ Len(out) + Len(SelectSeq(lines, IsEventLine)) = Len(ev)
       /\ \A i \in 1..Len(out) :
             /\ i <= Len(ev)
             /\ TranslateLine(ev[i], request_tools).frames = << out[i] >>
             /\ IsDoneLine(ev[i]) <=> out[i] = DoneFrame

\* C2, the order in time: a chunk is consumed only when every frame of the
\* lines completed before it has been yielded
C2_FramesBeforeNextChunk ==
    pos' # pos =>
       /\ lines = <<>>
       /\ Len(out) = Len(SelectSeq(LinesDelivered, IsEventLine))

\* C2: one frame for each complete line that is a [DONE] marker or parsed
\* JSON, in the order of the lines, each yielded before a later chunk is
\* consumed
C2_OneFramePerLineInOrder ==
    [] C2_FramePerEventLine /\ [][C2_FramesBeforeNextChunk]_vars

\* C4: with declared tools, a content_block_start event that carries a
\* tool_use block is emitted once, its content_block the single repaired
\* block (the "not available" text block when the name is not declared);
\* there are as many frames as without repair, and every other frame is the
\* one emitted without repair
RepairedInPlace(frame, plain, tools) ==
    IF /\ tools # None
       /\ plain # DoneFrame
       /\ IsToolStart(FrameEvent(plain).val)
    THEN \E cb \in { DictGet(FrameEvent(plain).val, S_content_block) } :
            /\ FrameEvent(frame).ok
            /\ IsDict(FrameEvent(frame).val)
            /\ \A k \in 1..Len(FrameEvent(plain).val[2]) :
                  FrameEvent(plain).val[2][k][1] # S_content_block =>
                     FrameEvent(frame).val[2][k] = FrameEvent(plain).val[2][k]
            /\ IF Undeclared(cb, tools)
               THEN DictGet(FrameEvent(frame).val, S_content_block) = NotAvailableText(cb)
               ELSE IsToolUse(DictGet(FrameEvent(frame).val, S_content_block))
    ELSE frame = plain

C4_ToolStartRepairedInPlace ==
    \E due \in { RunDue.frames } :
    \E plain \in { OneChunk(Delivered, NoTools).frames } :
       /\ Len(due) = Len(plain)
       /\ \A i \in 1..Len(due) : RepairedInPlace(due[i], plain[i], request_tools)

\* C8: a complete line whose payload is not empty and is no JSON gives no
\* frame and no error and changes nothing: the frames, and the way the
\* stream ends, are those of the same lines with the malformed ones taken
\* out, and the pending bytes are the bytes after the last newline
C8_MalformedLineSkipped ==
    \E ls \in { LinesDelivered } :
    \E bad \in { { i \in 1..Len(ls) : IsMalformedLine(ls[i]) } } :
       /\ RunDue = RunAll(SelectSeq([i \in 1..Len(ls) |->
                                        IF i \in bad THEN <<>> ELSE ls[i]],
                                     LAMBDA l : l # <<>>),
                           request_tools, <<>>)
       /\ buffer = Unterminated(Delivered)

\* C9, the pending bytes: they are the bytes received after the last newline
C9_PendingIsTail ==
    /\ buffer = Unterminated(Delivered)
    /\ \A i \in 1..Len(buffer) : buffer[i] # "\n"

\* C9, the close: when the backend closes the stream the generator returns
\* without a frame and without an exception, whatever bytes are pending, and
\* the frames yielded are those of the complete lines
C9_CloseYieldsNothing ==
    (~closed /\ closed' /\ pos' = pos /\ lines = <<>>) =>
       /\ out' = out
       /\ error' = ""
       /\ out = RunAll(LinesDelivered, request_tools, <<>>).frames

\* C9: pending bytes at the close of the stream give no frame and no error
\* and leave the frames yielded as they are; the pending bytes are never
\* more than the bytes since the last newline
C9_TrailingBytesDropped ==
    [] C9_PendingIsTail /\ [][C9_CloseYieldsNothing]_vars

\* the backend closed after a frame, with pending bytes that would be an
\* event had their newline arrived
C9_Witness ==
    /\ closed
    /\ error = ""
    /\ out # <<>>
    /\ buffer # <<>>
    /\ TranslateLine(buffer, request_tools).frames # <<>>
    /\ log[Len(log)] = "streaming.trailing_buffer"

----------------------------------------------------------------------------
(* properties of repair_tool_use_blocks, checked under SpecRepair *)

\* the first call has returned: it was made and no exception left it
Returned == rphase # "input" /\ first.raised = ""

\* the positions of content whose tool_use block names no declared tool
Replaced(c, tools) ==
    { i \in 1..Len(c) : IsToolUse(c[i]) /\ tools # None /\ Undeclared(c[i], tools) }

\* C3: a call that returns gives a list as long as content; a block that is
\* no tool_use block is returned as it is, at its position; a tool_use block
\* is replaced by the "not available" text block exactly when tools were
\* declared and its trimmed name is empty or, whatever the case, none of the
\* declared names, and stays a tool_use block otherwise;
\* dropped_invalid_tools counts the replaced blocks
C3_DeclaredNamesDecideReplacement ==
    Returned =>
       /\ Len(first.repaired) = Len(content)
       /\ \A i \in 1..Len(content) :
             IF ~IsToolUse(content[i]) THEN first.repaired[i] = content[i]
             ELSE IF i \in Replaced(content, request_tools)
                  THEN first.repaired[i] = NotAvailableText(content[i])
                  ELSE IsToolUse(first.repaired[i])
       /\ first.stats.dropped_invalid_tools
             = Cardinality(Replaced(content, request_tools))

\* an undeclared tool is replaced and a tool declared in another case is kept
C3_Witness ==
    /\ rphase = "repaired"
    /\ request_tools = DeclaredRead
    /\ content = << ToolUseUnknown, ToolUseNoId >>
    /\ first.raised = ""
    /\ first.repaired[1] = NotAvailableText(ToolUseUnknown)
    /\ IsToolUse(first.repaired[2])
    /\ first.stats.dropped_invalid_tools = 1

\* the tool_use blocks that came without an id and were returned as tool_use
\* blocks, by call (1: of content, 2: of the shifted content) and position
NoId(block) == IsToolUse(block) /\ ~Truthy(DictGet(block, S_id))

SynthesizedIn(call, c, res) ==
    { <<call, i>> : i \in { j \in 1..Len(c) : NoId(c[j]) /\ IsToolUse(res.repaired[j]) } }

Synthesized ==
    SynthesizedIn(1, content, first)
    \cup (IF rphase = "again" /\ again.raised = ""
          THEN SynthesizedIn(2, Shifted(content, shift), again) ELSE {})

BlockOf(e) == IF e[1] = 1 THEN first.repaired[e[2]] ELSE again.repaired[e[2]]

IdOf(e) == DictGet(BlockOf(e), S_id)

\* the name, input and zero-based position an id is synthesized for
KeyOf(e) == << Strip(NameStr(BlockOf(e))), DictGet(BlockOf(e), S_input), e[2] - 1 >>

\* C5: in calls that return, a tool_use block with a missing or empty id gets
\* an id "toolu_..." that is the same for the same trimmed name, repaired
\* input and zero-based position, whatever the call and the declared tools,
\* and differs when only the position differs; a block that has an id keeps
\* it; added_ids counts the blocks that came without an id
C5_IdDeterministicAndPositional ==
    Returned =>
       /\ \A e \in Synthesized :
             /\ IsStr(IdOf(e))
             /\ StartsWith(IdOf(e)[2], S_toolu)
             /\ Len(IdOf(e)[2]) > Len(S_toolu)
       /\ \A e, f \in Synthesized :
             /\ KeyOf(e) = KeyOf(f) => IdOf(e) = IdOf(f)
             /\ ( /\ KeyOf(e)[1] = KeyOf(f)[1]
                  /\ KeyOf(e)[2] = KeyOf(f)[2]
                  /\ KeyOf(e)[3] # KeyOf(f)[3] ) => IdOf(e) # IdOf(f)
       /\ \A i \in 1..Len(content) :
             (IsToolUse(content[i]) /\ ~NoId(content[i]) /\ IsToolUse(first.repaired[i]))
                => DictGet(first.repaired[i], S_id) = DictGet(content[i], S_id)
       /\ first.stats.added_ids
             = Cardinality({ i \in 1..Len(content) : NoId(content[i]) })

\* two blocks of the same name and input at positions 0 and 1 got two ids,
\* and a second call, with other declared tools, gave the block it has at
\* position 1 the id the first call gave at position 1
C5_Witness ==
    /\ rphase = "again"
    /\ shift = 1
    /\ tools2 # request_tools
    /\ content = << ToolUseNoId, ToolUseNoId >>
    /\ first.raised = "" /\ again.raised = ""
    /\ first.stats.added_ids = 2
    /\ Synthesized = { <<1, 1>>, <<1, 2>>, <<2, 2>>, <<2, 3>> }
    /\ IdOf(<<1, 1>>) # IdOf(<<1, 2>>)
    /\ IdOf(<<2, 2>>) = IdOf(<<1, 2>>)
    /\ IdOf(<<2, 3>>) # IdOf(<<1, 2>>)

\* a tool_use block with nothing to repair: an id that is a non-empty string,
\* an input that is no string, a name among the declared names
ValidBlock(block, tools) ==
    /\ IsToolUse(block)
    /\ IsStr(DictGet(block, S_id)) /\ DictGet(block, S_id)[2] # <<>>
    /\ ~IsStr(DictGet(block, S_input))
    /\ tools # None
    /\ ~Undeclared(block, tools)

\* C6: repair of a list of valid tool_use blocks returns, without an
\* exception, the list it was given, with the three counters zero and no
\* warning; in any call that returns, a valid block is returned as it is
C6_IdentityOnValid ==
    rphase # "input" =>
       /\ (content # <<>> /\ \A i \in 1..Len(content) : ValidBlock(content[i], request_tools))
             => /\ first.raised = ""
                /\ first.repaired = content
                /\ first.stats = NoStats
                /\ first.warnings = 0
       /\ first.raised = "" =>
             \A i \in 1..Len(content) :
                ValidBlock(content[i], request_tools) => first.repaired[i] = content[i]

\* a single valid block, its name declared in another case, came back as it is
C6_Witness ==
    /\ rphase = "repaired"
    /\ content = << ToolUseValid >>
    /\ request_tools = DeclaredMixed
    /\ ValidBlock(ToolUseValid, request_tools)
    /\ first.repaired = content
    /\ first.stats = NoStats

\* the positions of content whose tool_use block has a string input
StrInput(c) ==
    { i \in 1..Len(c) : IsToolUse(c[i]) /\ IsStr(DictGet(c[i], S_input)) }

\* C7: every call returns; a block with a string input is returned as a
\* tool_use block unless its name fails validation; returned as a tool_use
\* block, its input is the parsed value when the string is JSON and the
\* string itself when it is not; parsed_stringified_input counts the string
\* inputs that are JSON
C7_NeverRaisesKeepsUnparseable ==
    rphase # "input" =>
       /\ first.raised = ""
       /\ Len(first.repaired) = Len(content)
       /\ \A i \in StrInput(content) :
             /\ IsToolUse(first.repaired[i]) \/ i \in Replaced(content, request_tools)
             /\ IsToolUse(first.repaired[i]) =>
                   DictGet(first.repaired[i], S_input)
                      = IF Loads(DictGet(content[i], S_input)[2]).ok
                        THEN Loads(DictGet(content[i], S_input)[2]).val
                        ELSE DictGet(content[i], S_input)
       /\ first.stats.parsed_stringified_input
             = Cardinality({ i \in StrInput(content) :
                               Loads(DictGet(content[i], S_input)[2]).ok })

----------------------------------------------------------------------------
(* properties of apply_thinking_policy, checked under SpecThinking *)

\* the messages of the request and of the payload returned
MessagesIn  == DictGet(payload, S_messages)[2]
MessagesOut == DictGet(policy.payload, S_messages)[2]

IsThinking(block) == IsDict(block) /\ DictGet(block, S_type) = JStr(S_thinking)
IsRedacted(block) ==
    IsDict(block) /\ DictGet(block, S_type) = JStr(S_redacted_thinking)

\* the blocks of all list contents of the request, in order
RECURSIVE BlocksFrom(_, _)
BlocksFrom(messages, i) ==
    IF i > Len(messages) THEN <<>>
    ELSE (IF IsList(DictGet(messages[i], S_content))
          THEN DictGet(messages[i], S_content)[2] ELSE <<>>)
         \o BlocksFrom(messages, i + 1)

\* C10: the payload returned has the messages of the request, in order; a
\* message with list content has, when the model is not thinking capable,
\* its blocks without the thinking and redacted_thinking blocks, the others
\* unchanged and in order, and its blocks as they were when the model is
\* thinking capable; a message with string content is unchanged;
\* thinking_blocks and redacted_blocks count the blocks of the two types in
\* all messages, dropped_blocks is their sum when not thinking capable and 0
\* when thinking capable, and warning_needed holds iff dropped_blocks > 0
C10_ThinkingGating ==
    tphase = "applied" =>
       /\ Len(MessagesOut) = Len(MessagesIn)
       /\ \A m \in 1..Len(MessagesIn) :
             IF IsList(DictGet(MessagesIn[m], S_content))
             THEN MessagesOut[m]
                    = DictSet(MessagesIn[m], S_content,
                         JList(IF thinking_capable
                               THEN DictGet(MessagesIn[m], S_content)[2]
                               ELSE SelectSeq(DictGet(MessagesIn[m], S_content)[2],
                                        LAMBDA b : ~IsThinking(b) /\ ~IsRedacted(b))))
             ELSE MessagesOut[m] = MessagesIn[m]
       /\ policy.payload = DictSet(payload, S_messages, JList(MessagesOut))
       /\ policy.result.thinking_blocks
             = Len(SelectSeq(BlocksFrom(MessagesIn, 1), IsThinking))
       /\ policy.result.redacted_blocks
             = Len(SelectSeq(BlocksFrom(MessagesIn, 1), IsRedacted))
       /\ policy.result.dropped_blocks
             = IF thinking_capable THEN 0
               ELSE policy.result.thinking_blocks + policy.result.redacted_blocks
       /\ policy.result.thinking_capable = thinking_capable
       /\ warning_needed(policy.result) <=> policy.result.dropped_blocks > 0

\* [thinking, text, redacted_thinking] became [text] for a model that is not
\* thinking capable, next to a message of string content that did not change
C10_Witness ==
    /\ tphase = "applied"
    /\ ~thinking_capable
    /\ payload = PayloadOf(<< ThinkingBlock, TextBlock, RedactedBlock >>, 3, TRUE)
    /\ DictGet(MessagesOut[1], S_content) = JList(<< TextBlock >>)
    /\ MessagesOut[2] = MessagesIn[2]
    /\ policy.result.dropped_blocks = 2
    /\ warning_needed(policy.result)

----------------------------------------------------------------------------
(* load_routing_config, resolve_model and prepare_anthropic_payload applied to
   drawn inputs *)

MaxMessages == 2    \* messages in a drawn request

Chars_sonnet == <<"s","o","n","n","e","t">>
Chars_haiku  == <<"h","a","i","k","u">>
Chars_opus   == <<"o","p","u","s">>
Chars_big    == <<"b","i","g">>
Chars_small  == <<"s","m","a","l","l">>

\* cc-proxy.yaml
BaseFull ==
    JDict(<< <<S_aliases,
               JDict(<< <<Chars_sonnet, JDict(<< <<S_promise, JDict(<<>>)>> >>)>>,
                        <<Chars_haiku, JDict(<<>>)>> >>)>>,
             <<S_thinking_capable_models, JList(<< JStr(Chars_big) >>)>> >>)
BaseOneAlias ==
    JDict(<< <<S_aliases, JDict(<< <<Chars_haiku, None>> >>)>>,
             <<S_thinking_capable_models,
               JList(<< JStr(<<" ">> \o Chars_big \o <<" ">>), JStr(<<>>) >>)>> >>)
BaseMissing == JDict(<<>>)
BasePool == { BaseFull, BaseOneAlias, BaseMissing }

\* cc-proxy.user.yaml
UserAliases(ps) == JDict(<< <<S_aliases, JDict(ps)>> >>)
UserSonnetBig   == UserAliases(<< <<Chars_sonnet, JStr(<<" ">> \o Chars_big \o <<" ">>)>> >>)
UserSonnetSmall == UserAliases(<< <<Chars_sonnet, JStr(Chars_small)>> >>)
UserOnlyOpus    == UserAliases(<< <<Chars_opus, JStr(Chars_big)>> >>)
UserAll         == UserAliases(<< <<Chars_sonnet, JStr(Chars_small)>>,
                                  <<Chars_haiku, JStr(Chars_big)>>,
                                  <<Chars_opus, JStr(Chars_small)>> >>)
UserNumber      == UserAliases(<< <<Chars_haiku, JNum(7)>> >>)
UserMissing     == JDict(<<>>)
UserPool == { UserSonnetBig, UserSonnetSmall, UserOnlyOpus, UserAll, UserNumber,
              UserMissing }

RequestedPool == { Chars_sonnet, Chars_haiku, Chars_opus, Chars_big }

\* texts
Text_marker    == <<"u","s","e","_","t","o","o","l","s">>
Text_many      == <<"U","S","E","_","T","O","O","L","S","-","u","s","e","_","t","o","o","l","s"," ","x","u","s","e","_","t","o","o","l","s"," ","U","s","e","_","T","o","o","l","s","_">>
Text_brackets  == <<"(","U","s","e","_","T","o","o","l","s",")"," ","e'","u","s","e","_","t","o","o","l","s">>
Text_none      == <<"h","i">>

\* a block of a type other than text that carries the marker
ToolResultBlock ==
    JDict(<< <<S_type, JStr(<<"t","o","o","l","_","r","e","s","u","l","t">>)>>,
             <<S_content, JStr(Text_marker)>> >>)

MessagePool ==
    { Message(Chars_user, JStr(Text_marker)),
      Message(Chars_user, JStr(Text_many)),
      Message(Chars_user, JList(<< TextBlockOf(Text_brackets), ToolResultBlock >>)),
      Message(Chars_user, JStr(Text_none)),
      Message(Chars_assistant, JStr(Text_marker)),
      Message(Chars_assistant, JList(<< TextBlockOf(Text_marker) >>)) }

SystemPool == { None, JStr(<<"s">>), JList(<< TextBlockOf(<<"s">>), TextBlockOf(<<"t">>) >>) }
DeclaredPool  == { None, DeclaredNone, DeclaredRead }
TemperaturePool == { None, JNum(1) }

\* a key with its value, when it has one: model_dump(exclude_none=True)
Field(key, value) == IF value = None THEN <<>> ELSE << <<key, value>> >>

RequestOf(model, messages, system, tools, temperature) ==
    JDict(<< <<S_model, JStr(model)>>, <<S_messages, JList(messages)>> >>
          \o Field(S_system, system)
          \o Field(S_tools, tools)
          \o Field(<<"t","o","o","l","_","c","h","o","i","c","e">>, IF tools = None THEN None ELSE JStr(<<"a">>))
          \o Field(S_temperature, temperature))

RoutingInit ==
    /\ proxy_data \in BasePool
    /\ user_data \in UserPool
    /\ requested \in RequestedPool
    /\ resolved = <<>>
    /\ request = <<>>
    /\ routing = <<>>
    /\ prepared = <<>>
    /\ compat = <<>>
    /\ aphase = "input"
    /\ StreamIdle
    /\ request_tools = None
    /\ RepairIdle
    /\ ThinkingIdle
    /\ ResponseIdle
    /\ CapabilityIdle
    /\ MessagesIdle

\* routing = load_routing_config()
LoadRoutingConfig ==
    /\ aphase = "input"
    /\ request = <<>>
    /\ routing' = load_routing_config(proxy_data, user_data)
    /\ aphase' = "routed"
    /\ UNCHANGED <<proxy_data, user_data, requested, resolved, request, prepared, compat,
                   svars, rvars, tvars, mvars, pvars, cvars>>

\* resolve_model(requested, routing)
ResolveModel ==
    /\ aphase = "routed"
    /\ resolved' = resolve_model(requested, routing)
    /\ aphase' = "resolved"
    /\ UNCHANGED <<proxy_data, user_data, requested, request, routing, prepared, compat,
                   svars, rvars, tvars, mvars, pvars, cvars>>

RoutingNext == LoadRoutingConfig \/ ResolveModel

SpecRouting == RoutingInit /\ [][RoutingNext]_vars

PrepareInit ==
    /\ proxy_data = BaseFull
    /\ user_data \in { UserSonnetBig, UserSonnetSmall }
    /\ requested = <<>>
    /\ resolved = <<>>
    /\ \E model \in { Chars_sonnet },
          messages \in ListsOf(MessagePool, MaxMessages) \ { <<>> },
          system \in SystemPool, tools \in DeclaredPool, temperature \in TemperaturePool :
          request = RequestOf(model, messages, system, tools, temperature)
    /\ routing = <<>>
    /\ prepared = <<>>
    /\ compat = <<>>
    /\ aphase = "input"
    /\ StreamIdle
    /\ request_tools = None
    /\ RepairIdle
    /\ ThinkingIdle
    /\ ResponseIdle
    /\ CapabilityIdle
    /\ MessagesIdle

\* main.py lines 95-98: routing = load_routing_config(), then
\* prepare_anthropic_payload(request, routing=routing)
PrepareAnthropicPayload ==
    /\ aphase = "input"
    /\ request # <<>>
    /\ routing' = load_routing_config(proxy_data, user_data)
    /\ prepared' = prepare_anthropic_payload(request, routing')
    /\ aphase' = "prepared"
    /\ UNCHANGED <<proxy_data, user_data, requested, resolved, request, compat,
                   svars, rvars, tvars, mvars, pvars, cvars>>

PrepareNext == PrepareAnthropicPayload

SpecPrepare == PrepareInit /\ [][PrepareNext]_vars

----------------------------------------------------------------------------
(* claims about alias resolution *)

\* the keys of a dict
KeysOf(d) == { d[2][i][1] : i \in 1..Len(d[2]) }

\* the aliases a configuration file declares
AliasesOf(data) ==
    IF IsDict(DictGet(data, S_aliases)) THEN KeysOf(DictGet(data, S_aliases)) ELSE {}

\* the backend model name the user file gives an alias
UserModelOf(a) == Strip(PyStr(DictGet(DictGet(user_data, S_aliases), a)))

\* C13: the merged alias_to_model holds alias a, mapped to the user file's
\* backend model name, iff a is in both the base and the user aliases; an alias
\* of the user file alone is never honoured; resolve_model returns the mapped
\* name when there is a mapping and the requested string itself otherwise
C13_AliasesGatedByBaseFile ==
    /\ aphase \in {"routed", "resolved"} =>
          /\ KeysOf(routing.alias_to_model) = AliasesOf(proxy_data) \cap AliasesOf(user_data)
          /\ \A a \in KeysOf(routing.alias_to_model) :
                DictGet(routing.alias_to_model, a) = JStr(UserModelOf(a))
          /\ \A a \in AliasesOf(user_data) \ AliasesOf(proxy_data) :
                resolve_model(a, routing) = a
    /\ aphase = "resolved" =>
          resolved = IF requested \in AliasesOf(proxy_data) \cap AliasesOf(user_data)
                     THEN UserModelOf(requested)
                     ELSE requested

\* an alias of the user file alone was requested and came back unchanged,
\* while another alias of the same files was mapped
C13_Witness ==
    /\ aphase = "resolved"
    /\ requested \in AliasesOf(user_data) \ AliasesOf(proxy_data)
    /\ resolved = requested
    /\ KeysOf(routing.alias_to_model) # {}

----------------------------------------------------------------------------
(* claims about the use_tools marker and the forced tool use *)

\* the text with a space before and after it
Padded(text) == <<" ">> \o text \o <<" ">>

\* the positions where use_tools, in any case, stands in the text with no
\* letter, digit or underscore next to it
Occurrences(text) ==
    { i \in 1..Len(text) :
         /\ i + 8 <= Len(text)
         /\ Lower(SubSeq(text, i, i + 8)) = S_use_tools
         /\ ~IsWordChar(Padded(text)[i])
         /\ ~IsWordChar(Padded(text)[i + 10]) }

\* the text without the characters at the positions of gone
Remaining(text, gone) ==
    LET F[j \in 0..Len(text)] ==
            IF j = 0 THEN <<>>
            ELSE IF j \in gone THEN F[j - 1] ELSE Append(F[j - 1], text[j])
    IN  F[Len(text)]

\* the text without its occurrences
Without(text) ==
    CHOOSE t \in { Remaining(text, gone) :
                     gone \in { UNION { i..(i + 8) : i \in Occurrences(text) } } } : TRUE

\* the text of a text-type block
TextIn(block) ==
    IF IsStr(DictGet(block, S_text)) THEN DictGet(block, S_text)[2]
    ELSE IF Truthy(DictGet(block, S_text)) THEN PyStr(DictGet(block, S_text))
    ELSE <<>>

IsUserMessage(message) == DictGet(message, S_role) = JStr(Chars_user)
IsTextBlock(block) == IsDict(block) /\ DictGet(block, S_type) = JStr(S_text)

\* the texts of the user-role messages of a payload: string contents and the
\* texts of text-type blocks
UserTexts(p) ==
    LET ms == DictGet(p, S_messages)[2]
        um == { i \in 1..Len(ms) : IsUserMessage(ms[i]) }
    IN  { DictGet(ms[i], S_content)[2] : i \in { k \in um : IsStr(DictGet(ms[k], S_content)) } }
        \cup UNION { { TextIn(DictGet(ms[i], S_content)[2][j]) :
                          j \in { k \in 1..Len(DictGet(ms[i], S_content)[2]) :
                                     IsTextBlock(DictGet(ms[i], S_content)[2][k]) } } :
                     i \in { k \in um : IsList(DictGet(ms[k], S_content)) } }

\* what the scan is to make of a block of a user message
ScannedBlock(block) ==
    IF IsTextBlock(block) /\ Occurrences(TextIn(block)) # {}
    THEN DictSet(block, S_text, JStr(Without(TextIn(block))))
    ELSE block

\* what the scan is to make of a message
ScannedMessage(message) ==
    IF ~IsUserMessage(message) THEN message
    ELSE IF IsStr(DictGet(message, S_content))
    THEN DictSet(message, S_content, JStr(Without(DictGet(message, S_content)[2])))
    ELSE IF IsList(DictGet(message, S_content))
    THEN DictSet(message, S_content,
             JList([j \in 1..Len(DictGet(message, S_content)[2]) |->
                       ScannedBlock(DictGet(message, S_content)[2][j])]))
    ELSE message

MessageList(p) == DictGet(p, S_messages)[2]

SystemBlocks(system) ==
    IF system = None THEN <<>>
    ELSE IF IsStr(system) THEN << TextBlockOf(system[2]) >>
    ELSE system[2]

\* the marker was found in the request and the request declares a tool
ToolUseForced ==
    /\ \E text \in UserTexts(request) : Occurrences(text) # {}
    /\ IsList(DictGet(request, S_tools))
    /\ DictGet(request, S_tools)[2] # <<>>

\* C12: prepare_anthropic_payload appends the fixed instruction as the last
\* entry of the system block list (a string or absent system prompt coerced to
\* a block list, the entries kept in order) and sets temperature to 0 unless
\* the request set it, iff the marker was found and the request declares at
\* least one tool; otherwise system and temperature are as in the request
C12_ForcedToolUse ==
    aphase = "prepared" =>
       IF ToolUseForced
       THEN /\ DictGet(prepared.policy.payload, S_system)
                 = JList(SystemBlocks(DictGet(request, S_system))
                         \o << TextBlockOf(TOOL_USE_SYSTEM_INSTRUCTION) >>)
            /\ DictGet(prepared.policy.payload, S_temperature)
                 = IF DictHas(request, S_temperature)
                   THEN DictGet(request, S_temperature) ELSE JNum(0)
       ELSE /\ DictHas(prepared.policy.payload, S_system) <=> DictHas(request, S_system)
            /\ DictGet(prepared.policy.payload, S_system) = DictGet(request, S_system)
            /\ DictHas(prepared.policy.payload, S_temperature)
                  <=> DictHas(request, S_temperature)
            /\ DictGet(prepared.policy.payload, S_temperature)
                  = DictGet(request, S_temperature)

\* a forced request with a string system prompt and no temperature got the
\* instruction after its prompt and temperature 0
C12_Witness ==
    /\ aphase = "prepared"
    /\ ToolUseForced
    /\ IsStr(DictGet(request, S_system))
    /\ ~DictHas(request, S_temperature)
    /\ Len(DictGet(prepared.policy.payload, S_system)[2]) = 2
    /\ DictGet(prepared.policy.payload, S_temperature) = JNum(0)

----------------------------------------------------------------------------
(* from_anthropic_compat applied to drawn backend payloads *)

Chars_modelX == <<"m","o","d","e","l","X">>

\* a key the payload does not have
Absent == <<"absent", 0>>

ResponseBlockPool ==
    { TextBlock, ToolUseNoId, ToolUseDeep, BareString,
      JDict(<< <<S_text, JStr(<<"x">>)>> >>) }

ResponseContentPool ==
    { Absent, None, JStr(<<"n","o","t","-","a","-","l","i","s","t">>), JDict(<<>>) }
    \cup { JList(l) : l \in ListsOf(ResponseBlockPool, MaxContent) }

\* the body of a backend response
ResponsePayload(model, role, c) ==
    JDict((IF model = Absent THEN <<>> ELSE << <<S_model, model>> >>)
          \o (IF role = Absent THEN <<>> ELSE << <<S_role, role>> >>)
          \o (IF c = Absent THEN <<>> ELSE << <<S_content, c>> >>))

ResponseInit ==
    /\ compat_payload \in
          { JList(<<>>), None }
          \cup { ResponsePayload(model, role, c) :
                    model \in { Absent, JStr(Chars_modelX), JNum(7) },
                    role \in { Absent, JStr(S_assistant), JStr(Chars_user) },
                    c \in ResponseContentPool }
    /\ client_model = Chars_sonnet
    /\ request_tools \in { None, DeclaredRead }
    /\ adapted_response = <<>>
    /\ pphase = "input"
    /\ StreamIdle
    /\ RepairIdle
    /\ ThinkingIdle
    /\ PrepareIdle
    /\ CapabilityIdle
    /\ MessagesIdle

\* from_anthropic_compat(upstream, model=request.model, request_tools=request_tools)
FromAnthropicCompat ==
    /\ pphase = "input"
    /\ adapted_response' = from_anthropic_compat(compat_payload, client_model, request_tools)
    /\ pphase' = "adapted"
    /\ UNCHANGED <<compat_payload, client_model, svars, rvars, tvars, mvars, avars, cvars>>

ResponseNext == FromAnthropicCompat

SpecResponse == ResponseInit /\ [][ResponseNext]_vars

----------------------------------------------------------------------------
(* claims about the adapted response *)

\* C14: from_anthropic_compat returns a response whose model field is the
\* client-facing model name passed in, whatever model value the backend payload
\* carried; a content value that is not a list is coerced to an empty list and
\* does not fail the response: the call ends as it does for the same payload
\* with an empty content list, without running the repair
C14_ModelSubstitutedContentCoerced ==
    pphase = "adapted" =>
       /\ adapted_response.raised = "" =>
             DictGet(adapted_response.response, S_model) = JStr(client_model)
       /\ IsDict(compat_payload) /\ ~IsList(DictGet(compat_payload, S_content)) =>
             /\ ~adapted_response.repair_ran
             /\ adapted_response.raised = "" =>
                   DictGet(adapted_response.response, S_content) = JList(<<>>)
             /\ adapted_response.raised # "" =>
                   from_anthropic_compat(DictSet(compat_payload, S_content, JList(<<>>)),
                                         client_model, request_tools).raised # ""

\* a payload with another model name and a string as content came back as a
\* response with the client-facing name and no content
C14_Witness ==
    /\ pphase = "adapted"
    /\ IsDict(compat_payload)
    /\ DictGet(compat_payload, S_model) = JStr(Chars_modelX)
    /\ IsStr(DictGet(compat_payload, S_content))
    /\ adapted_response.raised = ""
    /\ DictGet(adapted_response.response, S_model) = JStr(Chars_sonnet)
    /\ DictGet(adapted_response.response, S_content) = JList(<<>>)

----------------------------------------------------------------------------
(* get_tool_capability called by concurrent requests *)

MaxCalls == 3       \* calls of get_tool_capability in a run

Callers == {"c1", "c2"}
CapabilityModels == { Chars_big, Chars_small }

\* the bodies of the backend's answers
Body_tools     == <<"{","\"","c","a","p","a","b","i","l","i","t","i","e","s","\"",":","[","\"","c","o","m","p","l","e","t","i","o","n","\"",",","\""," ","T","o","o","l","s"," ","\"","]","}">>
Body_other     == <<"{","\"","c","a","p","a","b","i","l","i","t","i","e","s","\"",":","[","\"","c","o","m","p","l","e","t","i","o","n","\"",",","7",",","\"","\"","]","}">>
Body_no_list   == <<"{","\"","c","a","p","a","b","i","l","i","t","i","e","s","\"",":","\"","t","o","o","l","s","\"","}">>
Body_empty     == <<"{","}">>
Body_no_object == <<"[","\"","t","o","o","l","s","\"","]">>
Body_no_json   == <<"{","\"","c","a","p","a","b","i","l","i","t","i","e","s","\"",":">>

ReplyPool ==
    { RequestError, HttpResponse(500, Body_tools), HttpResponse(200, Body_no_json),
      HttpResponse(200, Body_tools), HttpResponse(200, Body_other),
      HttpResponse(200, Body_no_list), HttpResponse(200, Body_empty),
      HttpResponse(200, Body_no_object) }

\* routing.tool_calling_capable_models, as the request's routing snapshot has it
ToolModelsPool == { <<>>, << Chars_big >> }

NoCall == [phase |-> "idle", model |-> <<>>, tool_models |-> <<>>, awaited |-> FALSE,
           reply |-> RequestError, value |-> ""]

CapabilityInit ==
    /\ capability_cache = [m \in CapabilityModels |-> ""]
    /\ calls = [c \in Callers |-> NoCall]
    /\ started = 0
    /\ shown = EmptyBag
    /\ caller = ""
    /\ StreamIdle
    /\ request_tools = None
    /\ RepairIdle
    /\ ThinkingIdle
    /\ PrepareIdle
    /\ ResponseIdle
    /\ MessagesIdle

\* a caller calls get_tool_capability(model=..., routing=..., client=...) and
\* runs it up to its return or to "await client.show_model(model)"
GetToolCapability(c, model, tool_models) ==
    /\ calls[c].phase \in {"idle", "returned"}
    /\ started < MaxCalls
    /\ started' = started + 1
    /\ caller' = c
    /\ calls' = [calls EXCEPT ![c] =
          [phase |-> IF BeforeAwait(model, tool_models, capability_cache).returns
                     THEN "returned" ELSE "awaiting",
           model |-> model, tool_models |-> tool_models, awaited |-> FALSE,
           reply |-> RequestError,
           value |-> BeforeAwait(model, tool_models, capability_cache).value]]
    /\ UNCHANGED <<capability_cache, shown, svars, rvars, tvars, mvars, avars, pvars>>

\* show_model returns or raises in the call that awaits it, and the call runs
\* to its return
ShowModelReturns(c, reply) ==
    /\ calls[c].phase = "awaiting"
    /\ \E after \in { AfterAwait(calls[c].model, show_model(reply), capability_cache) } :
          /\ capability_cache' = after.cache
          /\ calls' = [calls EXCEPT ![c] =
                 [@ EXCEPT !.phase = "returned", !.awaited = TRUE, !.reply = reply,
                           !.value = after.value]]
    /\ shown' = shown (+) SetToBag({ <<calls[c].model, reply>> })
    /\ caller' = c
    /\ UNCHANGED <<started, svars, rvars, tvars, mvars, avars, pvars>>

CapabilityNext ==
    \/ \E c \in Callers, model \in CapabilityModels, tool_models \in ToolModelsPool :
          GetToolCapability(c, model, tool_models)
    \/ \E c \in Callers, reply \in ReplyPool : ShowModelReturns(c, reply)

SpecCapability == CapabilityInit /\ [][CapabilityNext]_vars

\* the same calls made one after the other: a call starts when no call awaits
\* the backend
NoneAwaiting == \A c \in Callers : calls[c].phase # "awaiting"

SequentialNext ==
    \/ \E c \in Callers, model \in CapabilityModels, tool_models \in ToolModelsPool :
          NoneAwaiting /\ GetToolCapability(c, model, tool_models)
    \/ \E c \in Callers, reply \in ReplyPool : ShowModelReturns(c, reply)

SpecCapabilitySequential == CapabilityInit /\ [][SequentialNext]_vars

----------------------------------------------------------------------------
(* claims about capability detection *)

\* the call of caller c starts in this step
Starts(c) == started' # started /\ caller' = c

\* the call of caller c, which awaited the backend, returns in this step
Resumes(c) == calls[c].phase = "awaiting" /\ calls'[c].phase = "returned"

\* the call's model is in the tool-calling-capable list of its routing snapshot
AllowListed(call) == \E i \in 1..Len(call.tool_models) : call.tool_models[i] = call.model

\* a body that is a JSON object with a capabilities list
ObjectWithList(loaded) ==
    loaded.ok /\ IsDict(loaded.val) /\ IsList(DictGet(loaded.val, S_capabilities))

\* the introspection succeeded: the backend answered, with a status below 400
\* and such a body
Succeeded(reply) ==
    /\ ~reply.request_error
    /\ reply.status_code < 400
    /\ ObjectWithList(Loads(reply.text))

\* a capabilities list names tools, blanks and case aside
ListNamesTools(capabilities) ==
    \E i \in 1..Len(capabilities) : Lower(Strip(PyStr(capabilities[i]))) = S_tools

NamesTools(reply) == ListNamesTools(DictGet(Loads(reply.text).val, S_capabilities)[2])

Announced(reply) == IF NamesTools(reply) THEN "structured" ELSE "none"

\* the successful answers given for a model so far
Successes(m) == { e \in BagToSet(shown) : e[1] = m /\ Succeeded(e[2]) }

\* how many they are
SuccessCount(m) == BagCardinality([e \in Successes(m) |-> shown[e]])

\* C15: get_tool_capability for a model in the routing snapshot's
\* tool-calling-capable set returns "structured" at once: no backend call is
\* issued and the cache stays as it is, whatever it holds for the model
C15_AllowListedReturnsStructured ==
    [][\A c \in Callers :
          Starts(c) /\ AllowListed(calls'[c]) =>
             /\ calls'[c].phase = "returned"
             /\ calls'[c].value = "structured"
             /\ ~calls'[c].awaited
             /\ shown' = shown
             /\ capability_cache' = capability_cache]_vars

\* a call for an allow-listed model returned "structured" without a backend
\* call while the cache held "none" for that model
C15_Witness ==
    \E c \in Callers :
       /\ calls[c].phase = "returned"
       /\ AllowListed(calls[c])
       /\ ~calls[c].awaited
       /\ calls[c].value = "structured"
       /\ capability_cache[calls[c].model] = "none"

\* C16: in a sequential series of calls, once an introspection for a model
\* that is not allow-listed has succeeded, every later call for it returns the
\* cached value ("structured" iff the normalized capabilities list held
\* "tools", else "none") without a backend call; a cache entry is never
\* removed or changed; at most one successful introspection is made per model
C16_CachedForProcessLifetime ==
    /\ [](\A m \in CapabilityModels : SuccessCount(m) <= 1)
    /\ [][/\ \A m \in CapabilityModels :
                capability_cache[m] # "" => capability_cache'[m] = capability_cache[m]
          /\ \A c \in Callers :
                Resumes(c) /\ Succeeded(calls'[c].reply) =>
                   /\ calls'[c].value = Announced(calls'[c].reply)
                   /\ capability_cache'[calls[c].model] = Announced(calls'[c].reply)
          /\ \A c \in Callers :
                Starts(c) /\ ~AllowListed(calls'[c]) /\ Successes(calls'[c].model) # {} =>
                   /\ calls'[c].phase = "returned"
                   /\ ~calls'[c].awaited
                   /\ shown' = shown
                   /\ \A e \in Successes(calls'[c].model) :
                         calls'[c].value = Announced(e[2])]_vars

\* after a successful introspection that named tools, a later call for the
\* model, not allow-listed, returned "structured" from the cache
C16_Witness ==
    \E c \in Callers :
       /\ calls[c].phase = "returned"
       /\ ~AllowListed(calls[c])
       /\ ~calls[c].awaited
       /\ calls[c].value = "structured"
       /\ \E e \in Successes(calls[c].model) : NamesTools(e[2])

\* C17: on any introspection failure (a network or upstream error, a body that
\* is no JSON, no object, or has no capabilities list) get_tool_capability
\* returns "none" and leaves the cache as it was, so that the next lookup for
\* the model introspects again
C17_FailureNotCached ==
    [][\A c \in Callers :
          Resumes(c) /\ ~Succeeded(calls'[c].reply) =>
             /\ calls'[c].value = "none"
             /\ capability_cache' = capability_cache]_vars

\* C18: with concurrent calls for a model that is neither cached nor
\* allow-listed, every call that returns returns "structured" or "none", and a
\* call whose introspection failed never removes or overwrites a cache entry,
\* which only a concurrent call can have written
C18_ConcurrentLookups ==
    [][\A c \in Callers :
          Resumes(c) =>
             /\ calls'[c].value \in {"structured", "none"}
             /\ ~Succeeded(calls'[c].reply) =>
                   \A m \in CapabilityModels :
                      capability_cache[m] # "" => capability_cache'[m] = capability_cache[m]]_vars

----------------------------------------------------------------------------
(* POST /v1/messages: auth_dependency, then messages() *)

Chars_k1 == <<"k","1">>
Chars_k2 == <<"k","2">>

\* CC_PROXY_AUTH_KEY
EnvKeyPool == { None, JStr(<<" ">>), JStr(Chars_k1), JStr(<<" ">> \o Chars_k1 \o <<" ">>) }

\* the Authorization header
AuthorizationPool ==
    { None,
      JStr(<<"B","e","a","r","e","r"," ","k","1">>),
      JStr(<<"b","e","a","r","e","r"," "," ","k","1"," ">>),
      JStr(<<"B","E","A","R","E","R"," ","k","1">>),
      JStr(<<"B","e","a","r","e","r"," ","k","2">>),
      JStr(<<"B","a","s","i","c"," ","k","1">>),
      JStr(<<"B","e","a","r","e","r","k","1">>),
      JStr(<<" ","B","e","a","r","e","r"," ","k","1">>) }

\* the x-api-key header
XApiKeyPool == { None, JStr(Chars_k1), JStr(<<" ">> \o Chars_k1), JStr(Chars_k2) }

\* cc-proxy.yaml with the allow-list and the streaming switch
BaseWith(tool_models, streaming) ==
    JDict(BaseFull[2]
          \o Field(S_tool_calling_capable_models, tool_models)
          \o Field(S_tool_call_streaming_enabled, streaming))

\* the body of the request: tools and stream as the client sent them
MessagesRequestOf(tools, stream) ==
    JDict(RequestOf(Chars_sonnet, << Message(Chars_user, JStr(Text_none)) >>, None,
                    tools, None)[2]
          \o Field(S_stream, stream))

Body_message ==
    <<"{","\"","r","o","l","e","\"",":","\"","a","s","s","i","s","t","a","n","t","\"",",","\"","c","o","n","t","e","n","t","\"",":","[","]","}">>

ChatReplyPool ==
    { RequestError, HttpResponse(200, Body_message), HttpResponse(200, Body_no_json) }

ShowReplyPool ==
    { RequestError, HttpResponse(200, Body_tools), HttpResponse(200, Body_other),
      HttpResponse(200, Body_empty) }

MessagesInit ==
    /\ env_key \in EnvKeyPool
    /\ authorization \in AuthorizationPool
    /\ x_api_key \in XApiKeyPool
    /\ proxy_data \in { BaseWith(tool_models, streaming) :
                           tool_models \in { None, JList(<< JStr(Chars_big) >>) },
                           streaming \in { None, JTrue } }
    /\ user_data = UserSonnetBig
    /\ request \in { MessagesRequestOf(tools, stream) :
                        tools \in { None, DeclaredNone, DeclaredRead, JStr(<<"x">>) },
                        stream \in { None, JFalse, JTrue } }
    /\ capability_cache \in { [m \in CapabilityModels |-> IF m = Chars_big THEN v ELSE ""] :
                                 v \in { "", "structured", "none" } }
    /\ declared_tools = <<>>
    /\ capability = ""
    /\ status_code = 0
    /\ error_type = ""
    /\ backend_calls = <<>>
    /\ upstream_reply = <<>>
    /\ warning_header = <<>>
    /\ response_stats = <<>>
    /\ stream_raised = ""
    /\ hphase = "received"
    /\ requested = <<>> /\ resolved = <<>> /\ routing = <<>> /\ prepared = <<>>
    /\ compat = <<>>
    /\ aphase = "idle"
    /\ calls = <<>> /\ started = 0 /\ shown = <<>> /\ caller = ""
    /\ StreamIdle
    /\ request_tools = None
    /\ RepairIdle
    /\ ThinkingIdle
    /\ ResponseIdle

\* the response goes out with the given status
Respond(status, type) ==
    /\ status_code' = status
    /\ error_type' = type
    /\ hphase' = "responded"

\* lines 126-180 once the capability is known: the 400, the StreamingResponse
\* returned (its status is 200, its body is not yet iterated), or the chat
\* call awaited
Proceed(detected, adapted, tools, streaming_enabled, thinking_result) ==
    \E after \in { AfterDetection(detected, adapted, tools, streaming_enabled) } :
        IF after.status_code # 0
        THEN /\ Respond(after.status_code, after.error_type)
             /\ UNCHANGED <<backend_calls, warning_header>>
        ELSE IF after.call = "stream"
        THEN /\ status_code' = 200 /\ error_type' = ""
             /\ hphase' = "streaming"
             /\ warning_header' = WarningHeader(thinking_result, FALSE, NoStats)
             /\ backend_calls' = Append(backend_calls, "stream")
        ELSE /\ status_code' = 0 /\ error_type' = ""
             /\ hphase' = "calling"
             /\ backend_calls' = Append(backend_calls, "chat")
             /\ UNCHANGED warning_header

\* Depends(auth_dependency): require_auth raises, or the handler is entered
Authenticate ==
    /\ hphase = "received"
    /\ \E raised \in { require_auth(env_key, authorization, x_api_key) } :
          IF raised # 0
          THEN Respond(raised, "")
          ELSE /\ hphase' = "authorized"
               /\ UNCHANGED <<status_code, error_type>>
    /\ UNCHANGED <<env_key, authorization, x_api_key, declared_tools, capability,
                   backend_calls, upstream_reply, warning_header, response_stats,
                   stream_raised, svars, rvars, tvars, avars, pvars, cvars>>

\* messages() from its entry to its first await, or to its response
EnterMessages ==
    /\ hphase = "authorized"
    /\ \E e \in { Entered(request, proxy_data, user_data, capability_cache) } :
          /\ routing' = e.routing
          /\ prepared' = e.prepared
          /\ declared_tools' = e.request_tools
          /\ capability' = e.lookup.value
          /\ IF e.lookup.returns
             THEN Proceed(e.lookup.value, e.prepared.policy.payload, e.request_tools,
                          e.routing.tool_call_streaming_enabled, e.prepared.policy.result)
             ELSE /\ hphase' = "detecting"
                  /\ backend_calls' = Append(backend_calls, "show")
                  /\ UNCHANGED <<status_code, error_type, warning_header>>
    /\ UNCHANGED <<env_key, authorization, x_api_key, proxy_data, user_data, requested,
                   resolved, request, compat, aphase, upstream_reply, response_stats,
                   stream_raised, svars, rvars, tvars, pvars, cvars>>

\* "await client.show_model(model)" returns or raises inside
\* get_tool_capability, and messages() runs on
ShowModelReturnsToMessages(reply) ==
    /\ hphase = "detecting"
    /\ \E after \in { AfterAwait(prepared.resolved_model, show_model(reply),
                                 capability_cache) } :
          /\ capability_cache' = after.cache
          /\ capability' = after.value
          /\ Proceed(after.value, prepared.policy.payload, declared_tools,
                     routing.tool_call_streaming_enabled, prepared.policy.result)
    /\ UNCHANGED <<env_key, authorization, x_api_key, declared_tools, calls, started,
                   shown, caller, upstream_reply, response_stats, stream_raised,
                   svars, rvars, tvars, avars, pvars>>

\* "await client.chat_anthropic_compat(adapted)" returns or raises, and the
\* response is adapted
ChatReturns(reply) ==
    /\ hphase = "calling"
    /\ upstream_reply' = reply
    /\ \E outcome \in { ChatOutcome(reply, DictGet(request, S_model)[2], declared_tools,
                                    prepared.policy.result) } :
          /\ Respond(outcome.status_code, "")
          /\ warning_header' = outcome.warning
          /\ response_stats' = outcome.repair_stats
    /\ UNCHANGED <<env_key, authorization, x_api_key, declared_tools, capability,
                   backend_calls, stream_raised, svars, rvars, tvars, avars, pvars, cvars>>

\* the body of the StreamingResponse is iterated: the backend answers the
\* stream call, and the body ends or the exception of the client is raised
\* inside it. The status went out with the StreamingResponse
StreamReturns(reply) ==
    /\ hphase = "streaming"
    /\ upstream_reply' = reply
    /\ stream_raised' = StreamRaised(reply)
    /\ hphase' = "responded"
    /\ UNCHANGED <<env_key, authorization, x_api_key, declared_tools, capability,
                   status_code, error_type, backend_calls, warning_header, response_stats,
                   svars, rvars, tvars, avars, pvars, cvars>>

MessagesNext ==
    \/ Authenticate
    \/ EnterMessages
    \/ \E reply \in ShowReplyPool : ShowModelReturnsToMessages(reply)
    \/ \E reply \in ChatReplyPool : ChatReturns(reply)
    \/ \E reply \in ChatReplyPool : StreamReturns(reply)

SpecMessages == MessagesInit /\ [][MessagesNext]_vars

----------------------------------------------------------------------------
(* claims about POST /v1/messages *)

\* the request declares at least one tool
DeclaresTools == IsList(DictGet(request, S_tools)) /\ DictGet(request, S_tools)[2] # <<>>

\* the request declares no tools: the field is absent, or an empty list
DeclaresNoTools ==
    ~DictHas(request, S_tools) \/ DictGet(request, S_tools) = JList(<<>>)

SetsStream == DictGet(request, S_stream) = JTrue

\* tool_call_streaming_enabled as the configuration files have it (the user
\* file of these runs leaves it to the base file)
StreamingSwitch == DictGet(proxy_data, S_tool_call_streaming_enabled) = JTrue

\* messages() was entered
Entered_handler == hphase \notin {"received", "authorized"} /\ declared_tools # <<>>

ChatOrStreamIssued ==
    \E i \in 1..Len(backend_calls) : backend_calls[i] \in {"chat", "stream"}

Rejected400 ==
    /\ hphase = "responded"
    /\ status_code = 400
    /\ error_type = "invalid_request_error"
    /\ ~ChatOrStreamIssued

\* C19: a request that declares at least one tool is answered with a 400
\* invalid_request_error, and no backend chat or stream call is issued for it,
\* when the capability got for the resolved model is "none" or when it sets
\* stream=true while tool_call_streaming_enabled is false; a request that
\* declares no tools (absent or empty list) never triggers capability
\* detection and is never answered with that 400.
C19_ToolRequestsRejected ==
    /\ (DeclaresTools /\ capability = "none") => Rejected400
    /\ (DeclaresTools /\ SetsStream /\ ~StreamingSwitch)
          => /\ ~ChatOrStreamIssued
             /\ (Entered_handler /\ hphase = "responded") => Rejected400
    /\ DeclaresNoTools
          => /\ capability = ""
             /\ \A i \in 1..Len(backend_calls) : backend_calls[i] # "show"
             /\ status_code # 400

\* a tool request that streams is rejected for the switch after the backend
\* said the model can call tools
C19_Witness ==
    /\ hphase = "responded" /\ status_code = 400
    /\ DeclaresTools /\ SetsStream /\ ~StreamingSwitch
    /\ capability = "structured"
    /\ backend_calls = << "show" >>

\* the configured key, trimmed
ConfiguredKey == IF env_key = None THEN <<>> ELSE Strip(env_key[2])

\* the header is the scheme Bearer in any letter case, one space, and a rest
\* that is the key once trimmed
BearerHeader ==
    /\ authorization # None
    /\ \E i \in 1..Len(authorization[2]) :
          /\ authorization[2][i] = " "
          /\ \A j \in 1..(i - 1) : authorization[2][j] # " "
          /\ Lower(SubSeq(authorization[2], 1, i - 1)) = <<"b","e","a","r","e","r">>
          /\ Strip(SubSeq(authorization[2], i + 1, Len(authorization[2]))) = ConfiguredKey

KeyHeader == x_api_key # None /\ Strip(x_api_key[2]) = ConfiguredKey

\* the headers to the letter
BearerHeaderLiteral == authorization = JStr(<<"B","e","a","r","e","r"," ">> \o ConfiguredKey)
KeyHeaderLiteral == x_api_key = JStr(ConfiguredKey)

\* the request was turned away with the status, before adaptation and the backend
TurnedAway(status) ==
    /\ hphase = "responded"
    /\ status_code = status
    /\ routing = <<>> /\ prepared = <<>> /\ declared_tools = <<>>
    /\ backend_calls = <<>>

\* what became of a request once the dependency ran, given whether its
\* headers are taken to authorize it
AuthOutcome(authorizes) ==
    hphase # "received" =>
        IF ConfiguredKey = <<>> THEN TurnedAway(500)
        ELSE IF authorizes THEN hphase = "authorized" \/ declared_tools # <<>>
        ELSE TurnedAway(401)

\* C20 as stated: the Authorization header is "Bearer <key>" to the letter, or
\* the x-api-key header equals the key to the letter
C20_LiteralHeaders == AuthOutcome(BearerHeaderLiteral \/ KeyHeaderLiteral)

\* C20: authentication is fail-closed: when CC_PROXY_AUTH_KEY is unset or
\* blank every request is rejected with 500 whatever headers it carries;
\* otherwise a request is authorized iff its Authorization header is the scheme
\* Bearer in any letter case, one space and the key with whitespace around it
\* ignored, or its x-api-key header is the key with whitespace around it
\* ignored; every other request is rejected with 401; no rejected request
\* reaches request adaptation or the backend.
C20_FailClosed == AuthOutcome(BearerHeader \/ KeyHeader)

\* a request with another key in both headers was turned away with 401
C20_Witness ==
    /\ TurnedAway(401)
    /\ authorization = JStr(<<"B","e","a","r","e","r"," ","k","2">>)
    /\ x_api_key = JStr(Chars_k2)

----------------------------------------------------------------------------
(* to_anthropic_compat applied to drawn requests *)

S_metadata == <<"m","e","t","a","d","a","t","a">>
S_prompt_caching == <<"p","r","o","m","p","t","_","c","a","c","h","i","n","g">>
S_cache_control == <<"c","a","c","h","e","_","c","o","n","t","r","o","l">>
S_tool_choice == <<"t","o","o","l","_","c","h","o","i","c","e">>
S_extension == <<"x","_","e","x","t","e","n","s","i","o","n">>

\* fields a request may carry besides model and messages, with a value each
OptionalFields ==
    { <<S_metadata, JDict(<< <<S_user, JStr(<<"u">>)>> >>)>>,
      <<S_prompt_caching, JTrue>>,
      <<S_cache_control, JDict(<< <<S_type, JStr(<<"e">>)>> >>)>>,
      <<S_tool_choice, JDict(<< <<S_type, JStr(<<"a">>)>> >>)>>,
      <<S_thinking, JDict(<< <<S_type, JStr(<<"e">>)>> >>)>>,
      <<S_tools, DeclaredRead>>,
      <<S_extension, JList(<< JNum(1), None, JDict(<< <<S_metadata, None>> >>) >>)>> }

\* the fields of a set, in one order
RECURSIVE FieldsOf(_)
FieldsOf(fields) ==
    IF fields = {} THEN <<>>
    ELSE LET f == CHOOSE g \in fields : TRUE
         IN  << f >> \o FieldsOf(fields \ {f})

\* messages as model_dump gives them: content of any JSON type, or none
CompatMessagePool ==
    { Message(Chars_user, JStr(Text_none)),
      Message(Chars_assistant, JList(<< TextBlock, JStr(<<"x">>) >>)),
      Message(Chars_user, JNum(7)),
      JDict(<< <<S_role, JStr(Chars_user)>>,
               <<S_content, JDict(<< <<S_text, JStr(<<"x">>)>> >>)>>,
               <<S_extension, JTrue>> >>),
      JDict(<< <<S_role, JStr(Chars_assistant)>> >>) }

CompatRequestOf(model, messages, fields, stream) ==
    JDict(FieldsOf({ f \in fields : f[1] = S_metadata })
          \o << <<S_model, JStr(model)>>, <<S_messages, JList(messages)>> >>
          \o FieldsOf({ f \in fields : f[1] # S_metadata })
          \o Field(S_stream, stream))

CompatInit ==
    /\ \E messages \in ListsOf(CompatMessagePool, MaxMessages),
          fields \in SUBSET OptionalFields, stream \in { None, JFalse, JTrue } :
          request = CompatRequestOf(Chars_sonnet, messages, fields, stream)
    /\ resolved \in { Chars_big, Chars_sonnet }
    /\ proxy_data = <<>> /\ user_data = <<>> /\ requested = <<>>
    /\ routing = <<>> /\ prepared = <<>> /\ compat = <<>>
    /\ aphase = "input"
    /\ StreamIdle
    /\ request_tools = None
    /\ RepairIdle
    /\ ThinkingIdle
    /\ ResponseIdle
    /\ CapabilityIdle
    /\ MessagesIdle

\* adapted = to_anthropic_compat(request, resolved_model=resolved_model)
ToAnthropicCompat ==
    /\ aphase = "input"
    /\ compat' = to_anthropic_compat(request, resolved)
    /\ aphase' = "adapted"
    /\ UNCHANGED <<proxy_data, user_data, requested, resolved, request, routing, prepared,
                   svars, rvars, tvars, mvars, pvars, cvars>>

CompatNext == ToAnthropicCompat

SpecCompat == CompatInit /\ [][CompatNext]_vars

----------------------------------------------------------------------------
(* claims about to_anthropic_compat *)

Denylisted(key) == key \in { S_metadata, S_prompt_caching, S_cache_control, S_tool_choice }

\* the keys of either dict
KeysOfBoth(a, b) ==
    { a[2][i][1] : i \in 1..Len(a[2]) } \cup { b[2][i][1] : i \in 1..Len(b[2]) }

\* the content the backend is to get for a message of the request
PassedContent(message) ==
    IF IsStr(DictGet(message, S_content)) \/ IsList(DictGet(message, S_content))
    THEN DictGet(message, S_content) ELSE JStr(<<>>)

\* the message went through with its content as PassedContent has it and
\* every other key as it was
MessagePassed(message, passed) ==
    \A key \in KeysOfBoth(message, passed) \cup { S_content } :
        IF key = S_content
        THEN DictHas(passed, key) /\ DictGet(passed, key) = PassedContent(message)
        ELSE /\ DictHas(passed, key) = DictHas(message, key)
             /\ DictGet(passed, key) = DictGet(message, key)

----------------------------------------------------------------------------
(* load_routing_config applied to drawn model lists and scalar settings *)

\* a configuration file with the settings given; None leaves a key out
SettingsFile(tool_models, thinking_models, verbose, streaming, timeout) ==
    JDict(Field(S_tool_calling_capable_models, tool_models)
          \o Field(S_thinking_capable_models, thinking_models)
          \o Field(S_verbose_tool_logging, verbose)
          \o Field(S_tool_call_streaming_enabled, streaming)
          \o Field(S_ollama_timeout_seconds, timeout))

\* a key set to null in the file
NullSetting(key) == JDict(<< <<key, None>> >>)

List_big == JList(<< JStr(Chars_big) >>)
List_small_padded ==
    JList(<< JStr(<<" ">> \o Chars_small \o <<" ">>), JStr(<<>>), JStr(Chars_opus) >>)

BaseSettingsPool ==
    { SettingsFile(tool_models, thinking_models, verbose, streaming, timeout) :
         tool_models \in { None, JList(<<>>), List_big, JStr(Chars_big) },
         thinking_models \in { None, List_big },
         verbose \in { None, JTrue, JFalse },
         streaming \in { None, JTrue, JFalse },
         timeout \in { None, JNum(45) } }

UserSettingsPool ==
    { SettingsFile(tool_models, thinking_models, verbose, streaming, timeout) :
         tool_models \in { None, JList(<<>>), List_small_padded, JStr(Chars_small) },
         thinking_models \in { None, List_small_padded },
         verbose \in { None, JTrue, JFalse },
         streaming \in { None, JTrue, JFalse },
         timeout \in { None, JNum(30), JNum(0), JStr(<<" ","6","0">>), JStr(<<"x">>),
                       JList(<<>>) } }
    \cup { NullSetting(S_verbose_tool_logging), NullSetting(S_ollama_timeout_seconds) }

SettingsInit ==
    /\ proxy_data \in BaseSettingsPool
    /\ user_data \in UserSettingsPool
    /\ requested = <<>> /\ resolved = <<>> /\ request = <<>>
    /\ routing = <<>> /\ prepared = <<>> /\ compat = <<>>
    /\ aphase = "input"
    /\ StreamIdle
    /\ request_tools = None
    /\ RepairIdle
    /\ ThinkingIdle
    /\ ResponseIdle
    /\ CapabilityIdle
    /\ MessagesIdle

SettingsNext == LoadRoutingConfig

SpecSettings == SettingsInit /\ [][SettingsNext]_vars

----------------------------------------------------------------------------
(* claims about the model lists and the scalar settings of the snapshot *)

\* the model names a list of a configuration file gives: its items as
\* strings, trimmed, the empty ones left out; none when the value is no list
NamesIn(value) ==
    IF ~IsList(value) THEN <<>>
    ELSE SelectSeq([i \in 1..Len(value[2]) |-> Strip(PyStr(value[2][i]))],
                   LAMBDA n : n # <<>>)

UserToolList == DictGet(user_data, S_tool_calling_capable_models)
BaseToolList == DictGet(proxy_data, S_tool_calling_capable_models)

\* C25: tool_calling_capable_models is the user file's list if the user file
\* defines a non-empty list, which then replaces the base list entirely; when
\* the user file defines no list or an empty list it is the base file's list;
\* thinking_capable_models always comes from the base file only.
C25_ToolListOverride ==
    aphase = "routed" =>
        /\ routing.tool_calling_capable_models =
              IF IsList(UserToolList) /\ UserToolList[2] # <<>>
              THEN NamesIn(UserToolList) ELSE NamesIn(BaseToolList)
        /\ routing.thinking_capable_models =
              NamesIn(DictGet(proxy_data, S_thinking_capable_models))

\* a file defines the setting: the key is there with a value other than null
Defines(data, key) == DictGet(data, key) # None

\* a timeout a file defines is one the snapshot can hold: a positive number
UsableTimeout(data) ==
    /\ Defines(data, S_ollama_timeout_seconds)
    /\ PyFloat(DictGet(data, S_ollama_timeout_seconds)).raised = ""
    /\ PyFloat(DictGet(data, S_ollama_timeout_seconds)).number > 0

\* user file first, base file second, built-in default last
Layered(key, default) ==
    IF Defines(user_data, key) THEN Truthy(DictGet(user_data, key))
    ELSE IF Defines(proxy_data, key) THEN Truthy(DictGet(proxy_data, key))
    ELSE default

\* C26: each scalar setting of the snapshot (verbose_tool_logging,
\* tool_call_streaming_enabled and the backend timeout) takes the user-file
\* value when the user file defines it, else the base-file value when the base
\* file defines it, else the built-in default (false, false, no timeout).
C26_ScalarSettingsLayered ==
    aphase = "routed" =>
        /\ routing.verbose_tool_logging = Layered(S_verbose_tool_logging, FALSE)
        /\ routing.tool_call_streaming_enabled = Layered(S_tool_call_streaming_enabled, FALSE)
        /\ routing.ollama_timeout_seconds =
              IF UsableTimeout(user_data)
              THEN JNum(PyFloat(DictGet(user_data, S_ollama_timeout_seconds)).number)
              ELSE IF Defines(user_data, S_ollama_timeout_seconds) THEN None
              ELSE IF UsableTimeout(proxy_data)
              THEN JNum(PyFloat(DictGet(proxy_data, S_ollama_timeout_seconds)).number)
              ELSE None

----------------------------------------------------------------------------
(* POST /v1/messages for authorized requests: the answers of the backend *)

\* the body of the request, with its messages
UpstreamRequestOf(messages, tools, stream) ==
    JDict(RequestOf(Chars_sonnet, messages, None, tools, None)[2] \o Field(S_stream, stream))

Messages_plain == << Message(Chars_user, JStr(Text_none)) >>
Messages_thinking ==
    << Message(Chars_assistant, JList(<< ThinkingBlock, TextBlock >>)),
       Message(Chars_user, JStr(Text_none)) >>

\* bodies of the backend's answer to the chat call, nested no deeper than
\* RecursionLimit
Body_tool_no_id ==
    <<"{","\"","r","o","l","e","\"",":","\"","a","s","s","i","s","t","a","n","t","\"",",","\"","c","o","n","t","e","n","t","\"",":","[","{","\"","t","y","p","e","\"",":","\"","t","o","o","l","_","u","s","e","\"",",","\"","n","a","m","e","\"",":","\"","r","e","a","d","\"","}","]","}">>
Body_tool_undeclared ==
    <<"{","\"","c","o","n","t","e","n","t","\"",":","[","{","\"","t","y","p","e","\"",":","\"","t","o","o","l","_","u","s","e","\"",",","\"","i","d","\"",":","\"","t","1","\"",",","\"","n","a","m","e","\"",":","\"","r","m","\"","}","]","}">>
Body_tool_both ==
    <<"{","\"","c","o","n","t","e","n","t","\"",":","[","{","\"","t","y","p","e","\"",":","\"","t","o","o","l","_","u","s","e","\"",",","\"","n","a","m","e","\"",":","\"","r","e","a","d","\"",",","\"","i","n","p","u","t","\"",":","\"","{","}","\"","}",",","{","\"","t","y","p","e","\"",":","\"","t","o","o","l","_","u","s","e","\"",",","\"","i","d","\"",":","\"","t","1","\"",",","\"","n","a","m","e","\"",":","\"","r","m","\"","}","]","}">>
Body_text ==
    <<"{","\"","m","o","d","e","l","\"",":","\"","b","i","g","\"",",","\"","c","o","n","t","e","n","t","\"",":","[","{","\"","t","y","p","e","\"",":","\"","t","e","x","t","\"",",","\"","t","e","x","t","\"",":","\"","x","\"","}","]","}">>
Body_null == <<"n","u","l","l">>

UpstreamReplyPool ==
    { RequestError, HttpResponse(500, Body_message), HttpResponse(302, <<>>),
      HttpResponse(200, Body_message), HttpResponse(200, Body_text),
      HttpResponse(200, Body_no_object), HttpResponse(200, Body_null),
      HttpResponse(200, Body_no_json), HttpResponse(200, Body_tool_no_id),
      HttpResponse(200, Body_tool_undeclared), HttpResponse(200, Body_tool_both) }

UpstreamInit ==
    /\ env_key = JStr(Chars_k1)
    /\ authorization = JStr(<<"B","e","a","r","e","r"," ","k","1">>)
    /\ x_api_key = None
    /\ proxy_data \in { BaseWith(tool_models, streaming) :
                           tool_models \in { None, JList(<< JStr(Chars_big) >>) },
                           streaming \in { None, JTrue } }
    /\ user_data \in { UserSonnetBig, UserSonnetSmall }
    /\ request \in { UpstreamRequestOf(messages, tools, stream) :
                        messages \in { Messages_plain, Messages_thinking },
                        tools \in { None, DeclaredRead },
                        stream \in { None, JTrue } }
    /\ capability_cache \in { [m \in CapabilityModels |-> v] : v \in { "", "structured" } }
    /\ declared_tools = <<>>
    /\ capability = ""
    /\ status_code = 0
    /\ error_type = ""
    /\ backend_calls = <<>>
    /\ upstream_reply = <<>>
    /\ warning_header = <<>>
    /\ response_stats = <<>>
    /\ stream_raised = ""
    /\ hphase = "received"
    /\ requested = <<>> /\ resolved = <<>> /\ routing = <<>> /\ prepared = <<>>
    /\ compat = <<>>
    /\ aphase = "idle"
    /\ calls = <<>> /\ started = 0 /\ shown = <<>> /\ caller = ""
    /\ StreamIdle
    /\ request_tools = None
    /\ RepairIdle
    /\ ThinkingIdle
    /\ ResponseIdle

UpstreamNext ==
    \/ Authenticate
    \/ EnterMessages
    \/ \E reply \in ShowReplyPool : ShowModelReturnsToMessages(reply)
    \/ \E reply \in UpstreamReplyPool : ChatReturns(reply)
    \/ \E reply \in UpstreamReplyPool : StreamReturns(reply)

SpecUpstream == UpstreamInit /\ [][UpstreamNext]_vars

----------------------------------------------------------------------------
(* claims about the answers of the backend *)

ChatCalls == Len(SelectSeq(backend_calls, LAMBDA call : call = "chat"))
StreamCalls == Len(SelectSeq(backend_calls, LAMBDA call : call = "stream"))

\* the backend could not be reached, or answered with a status outside 2xx
UpstreamFailed ==
    /\ upstream_reply # <<>>
    /\ \/ upstream_reply.request_error
       \/ upstream_reply.status_code < 200 \/ upstream_reply.status_code >= 300

\* C21: for every request, streaming or not, a connection failure to the
\* backend or a non-2xx backend status is surfaced to the client as a 502
\* response, at once and without a retry of the backend call.
C21_UpstreamFailureIs502 ==
    (hphase = "responded" /\ UpstreamFailed) =>
        /\ status_code = 502
        /\ ChatCalls + StreamCalls = 1

\* the backend answered the chat call with 2xx and a JSON body that is no object
NonObjectBody ==
    /\ upstream_reply # <<>>
    /\ ~upstream_reply.request_error
    /\ upstream_reply.status_code >= 200 /\ upstream_reply.status_code < 300
    /\ Loads(upstream_reply.text).ok
    /\ ~IsDict(Loads(upstream_reply.text).val)

\* C23: on the non-streaming path, when the backend replies 2xx with a JSON
\* body that is not an object, the request fails with a 502; the client never
\* receives a 200 message built from a non-object backend body.
C23_NonObjectBodyIs502 ==
    (hphase = "responded" /\ ChatCalls = 1 /\ NonObjectBody) => status_code = 502

\* the tokens of the events that occurred in the request
EventTokens ==
    (IF prepared.policy.result.dropped_blocks > 0 THEN { "thinking_dropped" } ELSE {})
    \cup (IF response_stats.added_ids > 0 \/ response_stats.parsed_stringified_input > 0
          THEN { "tool_use_repaired" } ELSE {})
    \cup (IF response_stats.dropped_invalid_tools > 0 THEN { "tool_use_dropped" } ELSE {})

\* C24: on a 200 non-streaming response the X-CC-Proxy-Warning header lists
\* one token per kind of event that occurred in the request, additively:
\* thinking_dropped together with tool_use_repaired and/or tool_use_dropped
\* when both kinds occurred; the header is absent iff no event occurred.
C24_WarningHeaderAdditive ==
    (hphase = "responded" /\ status_code = 200 /\ ChatCalls = 1) =>
        /\ { warning_header[i] : i \in 1..Len(warning_header) } = EventTokens
        /\ Len(warning_header) = Cardinality(EventTokens)

----------------------------------------------------------------------------
(* the stream translator on the events of a message stream *)

S_index == <<"i","n","d","e","x">>
S_delta == <<"d","e","l","t","a">>
S_message_start == <<"m","e","s","s","a","g","e","_","s","t","a","r","t">>
S_content_block_delta ==
    <<"c","o","n","t","e","n","t","_","b","l","o","c","k","_","d","e","l","t","a">>
S_content_block_stop ==
    <<"c","o","n","t","e","n","t","_","b","l","o","c","k","_","s","t","o","p">>
S_message_delta == <<"m","e","s","s","a","g","e","_","d","e","l","t","a">>
S_message_stop == <<"m","e","s","s","a","g","e","_","s","t","o","p">>
S_partial_json == <<"p","a","r","t","i","a","l","_","j","s","o","n">>

\* a tool_use block as a backend starts it in a stream: no id, an empty input
ToolUseStarted ==
    JDict(<< <<S_type, JStr(S_tool_use)>>, <<S_name, JStr(Chars_read)>>,
           <<S_input, JDict(<<>>)>> >>)

\* the events of a backend stream
MessageStart(backend_model) ==
    JDict(<< <<S_type, JStr(S_message_start)>>,
           <<S_message, JDict(<< <<S_id, JStr(<<"m","1">>)>>,
                                 <<S_model, JStr(backend_model)>> >>)>> >>)

BlockStart(index, content_block) ==
    JDict(<< <<S_type, JStr(S_content_block_start)>>, <<S_index, JNum(index)>>,
           <<S_content_block, content_block>> >>)

BlockDelta(index) ==
    JDict(<< <<S_type, JStr(S_content_block_delta)>>, <<S_index, JNum(index)>>,
           <<S_delta, JDict(<< <<S_partial_json, JStr(<<"{","}">>)>> >>)>> >>)

BlockStop(index) ==
    JDict(<< <<S_type, JStr(S_content_block_stop)>>, <<S_index, JNum(index)>> >>)

MessageDelta ==
    JDict(<< <<S_type, JStr(S_message_delta)>>,
           <<S_delta, JDict(<< <<S_stop_reason, JStr(S_tool_use)>> >>)>> >>)

MessageStop == JDict(<< <<S_type, JStr(S_message_stop)>> >>)

\* the line that carries an event
EventLine(event) == S_data_prefix \o Encode(Dumps(event))

\* the lines of a message stream, without their newline; the backend names
\* the model it ran
EventLinePool ==
    { EventLine(MessageStart(Chars_big)),
      EventLine(BlockStart(0, ToolUseStarted)),
      EventLine(BlockStart(1, ToolUseStarted)),
      EventLine(BlockDelta(1)),
      EventLine(BlockStop(1)),
      EventLine(MessageDelta),
      EventLine(MessageStop),
      <<"7">> }

\* messages() hands the translator the model of the request and its tools
\* (main.py:161-165)
EventsInit ==
    /\ upstream = <<>>
    /\ written = 0
    /\ request_tools \in {NoTools, DeclaredRead, DeclaredRm}
    /\ pos = 0
    /\ buffer = <<>>
    /\ lines = <<>>
    /\ out = <<>>
    /\ log = <<>>
    /\ closed = FALSE
    /\ error = ""
    /\ mid_json_split = FALSE
    /\ RepairIdle
    /\ ThinkingIdle
    /\ PrepareIdle
    /\ compat_payload = <<>> /\ client_model = Chars_sonnet
    /\ adapted_response = <<>> /\ pphase = "idle"
    /\ CapabilityIdle
    /\ MessagesIdle

\* the backend writes event lines, and a chunk carries the bytes written
\* since the last one
EventsNext ==
    \/ \E l \in EventLinePool : BackendWrites(l)
    \/ pos < Len(upstream) /\ Feed(Len(upstream) - pos)
    \/ Resume
    \/ Close

SpecEvents == EventsInit /\ [][EventsNext]_vars

----------------------------------------------------------------------------
(* claims about the translated events of a message stream *)

\* the delivered lines that carry an event, in order: the i-th frame comes
\* from the i-th of them
Yielding == SelectSeq(LinesDelivered, IsEventLine)

\* the event of the line the i-th frame comes from, and the event in the frame
SourceEvent(i) == Loads(DataOf(Yielding[i])).val
SentEvent(i) == FrameEvent(out[i]).val

\* the frames that come from event lines other than [DONE]
EventFrames == { i \in 1..Len(out) : i <= Len(Yielding) /\ ~IsDoneLine(Yielding[i]) }

\* the i-th frame starts a tool_use block that the backend sent without an id
\* and that the translator gave one
IdSynthesized(i) ==
    /\ request_tools # None
    /\ IsToolStart(SourceEvent(i))
    /\ ~Truthy(DictGet(DictGet(SourceEvent(i), S_content_block), S_id))
    /\ IsToolStart(SentEvent(i))

\* the id non-streaming repair gives a block that stands at a position of the
\* content array of a message
NonStreamingId(block, position, tools) ==
    DictGet(repair_tool_use_blocks([k \in 1..position |-> TextBlock] \o <<block>>,
                                   tools).repaired[position + 1], S_id)

StreamedId(i) == DictGet(DictGet(SentEvent(i), S_content_block), S_id)

SameCall(i, j) ==
    /\ DictGet(DictGet(SourceEvent(i), S_content_block), S_name)
         = DictGet(DictGet(SourceEvent(j), S_content_block), S_name)
    /\ DictGet(DictGet(SourceEvent(i), S_content_block), S_input)
         = DictGet(DictGet(SourceEvent(j), S_content_block), S_input)

\* C27: the id the translator synthesizes for a streamed tool_use block without
\* an id is the id non-streaming repair gives the same block at the block's
\* index in the content array, and two blocks started at different indices of
\* one stream with the same name and input get different ids
C27_StreamedIdUsesContentIndex ==
    /\ \A i \in EventFrames :
         IdSynthesized(i) =>
           StreamedId(i) = NonStreamingId(DictGet(SourceEvent(i), S_content_block),
                                          DictGet(SourceEvent(i), S_index)[2],
                                          request_tools)
    /\ \A i, j \in EventFrames :
         /\ IdSynthesized(i) /\ IdSynthesized(j)
         /\ DictGet(SourceEvent(i), S_index) # DictGet(SourceEvent(j), S_index)
         /\ SameCall(i, j)
         => StreamedId(i) # StreamedId(j)

\* the frames that carry a model field: in the message of a message_start
CarriesModel(i) ==
    /\ IsDict(SentEvent(i))
    /\ IsDict(DictGet(SentEvent(i), S_message))
    /\ DictHas(DictGet(SentEvent(i), S_message), S_model)

\* C28: in every frame the translator emits that carries a model field, the
\* model is the model the request named, before resolution
C28_StreamedModelIsClientFacing ==
    \A i \in EventFrames :
        CarriesModel(i) =>
           DictGet(DictGet(SentEvent(i), S_message), S_model) = JStr(client_model)

\* the i-th frame comes from an event the translator has no repair for
Untouched(i) == ~(request_tools # None /\ IsToolStart(SourceEvent(i)))

\* C29: every parsed event other than a tool_use start under declared tools
\* is emitted, in its place, with the JSON value the backend sent; this
\* includes the deltas and stops of a block whose start was replaced by text,
\* and tool_use starts when the request declared no tools
C29_OtherEventsUnchanged ==
    /\ Len(out) <= Len(Yielding)
    /\ \A i \in EventFrames :
         Untouched(i) => FrameEvent(out[i]).ok /\ SentEvent(i) = SourceEvent(i)
    /\ (error = "" /\ lines = <<>>) => Len(out) = Len(Yielding)

\* a tool_use start was replaced by text, and the delta of its index went out
\* as the backend sent it
C29_Witness ==
    /\ request_tools = DeclaredRm
    /\ Len(out) = 2
    /\ SourceEvent(1) = BlockStart(1, ToolUseStarted)
    /\ SentEvent(1) = BlockStart(1, NotAvailableText(ToolUseStarted))
    /\ SourceEvent(2) = BlockDelta(1)
    /\ SentEvent(2) = BlockDelta(1)

====
